---- MODULE Spec2Model ----
(***************************************************************************)
(* Function-to-mesh tessellation engine of Forest (src/src/graph).         *)
(*                                                                         *)
(* Numbers.  An f64/f32 value is modelled as an integer counting units of  *)
(* 1/Scale (fixed point, rounded towards minus infinity), or as one of the *)
(* three non-finite IEEE values NaN, PInf, NInf.  Differences smaller than *)
(* one unit are 0 in the model.                                            *)
(*                                                                         *)
(* Calls.  A solver call is a run of the state machine: Init draws the     *)
(* solver and the arguments of the call, the actions are the steps of the  *)
(* solver's code, and pc = "done" is the state at its return.              *)
(***************************************************************************)
EXTENDS Integers, Sequences, FiniteSets, TLC

VARIABLES
    solver,     \* which solver this call runs
    pc,         \* position in the solver's code
    args,       \* the arguments of the call (a record)
    path,       \* sampled points / scalar field (solver-specific)
    idx,        \* loop index of the serial loop in progress
    vertices,   \* output vertex buffer
    indices,    \* output index buffer (3D meshes)
    evals,      \* number of evaluations of the function object so far
    parts,      \* per-worker local buffers of the parallel phase
    panicked,   \* TRUE once the call has panicked
    done,       \* tasks of the running parallel phase that have finished
    returned,   \* the calls that have returned before this one, with their buffers
    plotter,    \* the D2Plotter (its view state, objects and layers)
    env         \* the pakoo Env (its slices and data)

vars == <<solver, pc, args, path, idx, vertices, indices, evals, parts, panicked, done,
          returned, plotter, env>>

\* what a step of a solver call leaves alone
host == <<returned, plotter, env>>

(***************************************************************************)
(* IEEE non-finite values and the fixed-point unit.                        *)
(***************************************************************************)
Scale == 100
PInf == 1000000000
NInf == 0 - PInf
NaN == PInf + 1

is_finite(v) == v \notin {NaN, PInf, NInf}

Abs(v) == IF v < 0 THEN 0 - v ELSE v
Max(a, b) == IF a >= b THEN a ELSE b
Min(a, b) == IF a <= b THEN a ELSE b

\* floor(sqrt(n)) for n >= 0
RECURSIVE ISqrtBin(_, _, _)
ISqrtBin(n, lo, hi) ==
    IF hi - lo <= 1 THEN lo
    ELSE LET mid == (lo + hi) \div 2
         IN  IF mid * mid <= n THEN ISqrtBin(n, mid, hi) ELSE ISqrtBin(n, lo, mid)
sqrt(n) == ISqrtBin(n, 0, 46341)

\* finite a divided by the integer count n (n = 0: IEEE division by zero)
DivCount(a, n) ==
    IF n # 0 THEN a \div n
    ELSE IF a > 0 THEN PInf ELSE IF a < 0 THEN NInf ELSE NaN

\* p + n * w for finite p, n and a possibly infinite w >= 0 (IEEE: 0 * inf = NaN)
OffsetBy(p, nnum, len, w) ==
    IF is_finite(w) THEN p + (nnum * w) \div len
    ELSE IF w = NaN \/ nnum = 0 THEN NaN
    ELSE IF (nnum > 0) = (w = PInf) THEN PInf ELSE NInf

(***************************************************************************)
(* IEEE arithmetic on finite-or-non-finite values, and Vec3.  The          *)
(* constant vectors ZERO, J, K are in whole units.                         *)
(***************************************************************************)
FNeg(a) == IF a = NaN THEN NaN ELSE 0 - a

FAdd(a, b) ==
    IF a = NaN \/ b = NaN THEN NaN
    ELSE IF a \in {PInf, NInf} THEN (IF b = 0 - a THEN NaN ELSE a)
    ELSE IF b \in {PInf, NInf} THEN b
    ELSE a + b

FSub(a, b) == FAdd(a, FNeg(b))

FMul(a, b) ==
    IF a = NaN \/ b = NaN THEN NaN
    ELSE IF is_finite(a) /\ is_finite(b) THEN a * b
    ELSE IF a = 0 \/ b = 0 THEN NaN
    ELSE IF (a > 0) = (b > 0) THEN PInf ELSE NInf

ZERO == <<0, 0, 0>>
J == <<0, 1, 0>>
K == <<0, 0, 1>>

VFinite(v) == is_finite(v[1]) /\ is_finite(v[2]) /\ is_finite(v[3])
VSub(a, b) == <<FSub(a[1], b[1]), FSub(a[2], b[2]), FSub(a[3], b[3])>>
VAdd(a, b) == <<FAdd(a[1], b[1]), FAdd(a[2], b[2]), FAdd(a[3], b[3])>>
VScale(a, c) == <<FMul(a[1], c), FMul(a[2], c), FMul(a[3], c)>>
dot(a, b) == FAdd(FAdd(FMul(a[1], b[1]), FMul(a[2], b[2])), FMul(a[3], b[3]))
cross(a, b) ==
    <<FSub(FMul(a[2], b[3]), FMul(a[3], b[2])),
      FSub(FMul(a[3], b[1]), FMul(a[1], b[3])),
      FSub(FMul(a[1], b[2]), FMul(a[2], b[1]))>>

\* Vec3::unit of a vector v given in any unit; the result is in units of
\* 1/Scale.  eps is EPSILON (1e-10) in the units of v.  len() of a vector
\* with a NaN component is NaN and NaN > EPSILON is false; an infinite
\* length divides every component by infinity.
unit(v, eps) ==
    IF NaN \in {v[1], v[2], v[3]} THEN ZERO
    ELSE IF ~ VFinite(v)
         THEN [n \in 1..3 |-> IF is_finite(v[n]) THEN 0 ELSE NaN]
    ELSE LET l == sqrt(dot(v, v))
         IN  IF l > eps THEN [n \in 1..3 |-> (v[n] * Scale) \div l] ELSE ZERO

(***************************************************************************)
(* Function objects (closures handed in by the caller).                    *)
(***************************************************************************)
PoleX == 157        \* pi/2 in units of 1/Scale

\* Explicit: f64 -> f64
ExplicitFns == {"pole", "hole", "line"}
ExplicitF(fn, x) ==
    CASE fn = "pole" -> \* 0.5 / (pi/2 - x): the simple pole of 0.5 * tan(x) at pi/2
                        IF x = PoleX THEN PInf ELSE (Scale * Scale) \div (2 * (PoleX - x))
      [] fn = "hole" -> \* undefined (NaN) left of 1, as ln or sqrt of (x - 1)
                        IF x < Scale THEN NaN ELSE x - Scale
      [] OTHER       -> x

\* Parametric2D: f64 -> (f64, f64)
ParametricFns == {"hyperbola", "stop", "diag"}
ParametricF(fn, t) ==
    CASE fn = "hyperbola" -> <<t, IF t = PoleX THEN PInf ELSE (Scale * Scale) \div (PoleX - t)>>
      [] fn = "stop"      -> \* the point stays at (1, 1) until t = 1, then moves
                             <<Max(t, Scale), Max(t, Scale)>>
      [] OTHER            -> <<t, t>>

(***************************************************************************)
(* 2D ribbon: the quad (two triangles, 6 vertices) of one segment.         *)
(***************************************************************************)
Quad(p0, p1, len, w) ==
    LET dx == p1[1] - p0[1]
        dy == p1[2] - p0[2]
        p0_l == <<OffsetBy(p0[1], 0 - dy, len, w), OffsetBy(p0[2], dx, len, w)>>
        p0_r == <<OffsetBy(p0[1], dy, len, w), OffsetBy(p0[2], 0 - dx, len, w)>>
        p1_l == <<OffsetBy(p1[1], 0 - dy, len, w), OffsetBy(p1[2], dx, len, w)>>
        p1_r == <<OffsetBy(p1[1], dy, len, w), OffsetBy(p1[2], 0 - dx, len, w)>>
    IN  <<p0_l, p1_l, p0_r, p0_r, p1_l, p1_r>>

\* (2.0 / zoom) in units of 1/Scale, zoom given in units of 1/Scale
view_height_world(zoom) == DivCount(2 * Scale * Scale, zoom)

\* (width_px * 0.5) * ((2.0 / zoom) / screen_h)
half_width_world(width_px, zoom, screen_h) ==
    DivCount(width_px * Scale * Scale, zoom * screen_h)

(***************************************************************************)
(* ExplicitSolver::solve                                                   *)
(***************************************************************************)
SAMPLING_DENSITY == 1
ASYMPTOTE_THRESHOLD_FACTOR == 10
MinExplicitSamples == 100

\* (mutation: the screen_w test of line 31 dropped)
ExplicitDegenerateNoScreen(a) == a.x_max - a.x_min <= 0
ExplicitDegenerate(a) == a.x_max - a.x_min <= 0 \/ a.screen_w = 0

ExplicitTotalSamples(a) == Max(a.screen_w * SAMPLING_DENSITY, MinExplicitSamples)

\* x_min + i * step_x with step_x = x_len / total_samples
ExplicitX(a, i) == a.x_min + (i * (a.x_max - a.x_min)) \div ExplicitTotalSamples(a)

jump_threshold(a) == view_height_world(a.zoom) * ASYMPTOTE_THRESHOLD_FACTOR

\* the early return of lines 28-31
ExplicitCall ==
    /\ solver = "explicit" /\ pc = "call"
    /\ pc' = IF ExplicitDegenerate(args) THEN "done" ELSE "sample"
    /\ UNCHANGED <<host, solver, args, path, idx, vertices, indices, evals, parts, panicked, done>>

\* lines 33-43: the path, one evaluation of f per sample
ExplicitSample ==
    /\ solver = "explicit" /\ pc = "sample"
    /\ path' = [n \in 1..(ExplicitTotalSamples(args) + 1) |->
                  <<ExplicitX(args, n - 1), ExplicitF(args.f, ExplicitX(args, n - 1))>>]
    /\ evals' = evals + ExplicitTotalSamples(args) + 1
    /\ idx' = 0
    /\ pc' = "mesh"
    /\ UNCHANGED <<host, solver, args, vertices, indices, parts, panicked, done>>

\* (mutation: test B, the jump test, dropped)
ExplicitKeepsFinite(a, p0, p1) ==
    /\ is_finite(p0[2]) /\ is_finite(p1[2])
    /\ ~ (p1[1] - p0[1] = 0 /\ p1[2] - p0[2] = 0)

\* the tests A, B and C of one loop iteration: is segment (p0, p1) extruded?
ExplicitKeeps(a, p0, p1) ==
    /\ is_finite(p0[2]) /\ is_finite(p1[2])
    /\ ~ (Abs(p1[2] - p0[2]) > jump_threshold(a))
    /\ ~ (p1[1] - p0[1] = 0 /\ p1[2] - p0[2] = 0)

SegLen(p0, p1) ==
    sqrt((p1[1] - p0[1]) * (p1[1] - p0[1]) + (p1[2] - p0[2]) * (p1[2] - p0[2]))

\* lines 61-94: one iteration of the mesh loop
ExplicitSegment ==
    /\ solver = "explicit" /\ pc = "mesh"
    /\ idx < Len(path) - 1
    /\ LET p0 == path[idx + 1]
           p1 == path[idx + 2]
       IN  vertices' =
             IF ExplicitKeeps(args, p0, p1)
             THEN vertices \o Quad(p0, p1, SegLen(p0, p1),
                                   half_width_world(args.width_px, args.zoom, args.screen_h))
             ELSE vertices
    /\ idx' = idx + 1
    /\ UNCHANGED <<host, solver, pc, args, path, indices, evals, parts, panicked, done>>

\* line 96
ExplicitReturn ==
    /\ solver = "explicit" /\ pc = "mesh"
    /\ idx >= Len(path) - 1
    /\ pc' = "done"
    /\ UNCHANGED <<host, solver, args, path, idx, vertices, indices, evals, parts, panicked, done>>

(***************************************************************************)
(* ParametricSolver::solve (2D)                                            *)
(***************************************************************************)
SAMPLES_PER_UNIT_T == 20
JUMP_THRESHOLD_FACTOR == 2
MinParametricSamples == 200

ParametricDegenerate(a) == a.t_max - a.t_min <= 0

\* floor(t_len * SAMPLES_PER_UNIT_T), at least 200
ParametricTotalSamples(a) ==
    Max(((a.t_max - a.t_min) * SAMPLES_PER_UNIT_T) \div Scale, MinParametricSamples)

ParametricT(a, i) == a.t_min + (i * (a.t_max - a.t_min)) \div ParametricTotalSamples(a)

\* ((2.0 / zoom) * JUMP_THRESHOLD_FACTOR)^2, in squared units
max_jump_dist_sq(a) ==
    (view_height_world(a.zoom) * JUMP_THRESHOLD_FACTOR)
      * (view_height_world(a.zoom) * JUMP_THRESHOLD_FACTOR)

dist_sq(p0, p1) ==
    (p1[1] - p0[1]) * (p1[1] - p0[1]) + (p1[2] - p0[2]) * (p1[2] - p0[2])

\* the early return of lines 27-29
ParametricCall ==
    /\ solver = "parametric" /\ pc = "call"
    /\ pc' = IF ParametricDegenerate(args) THEN "done" ELSE "sample"
    /\ UNCHANGED <<host, solver, args, path, idx, vertices, indices, evals, parts, panicked, done>>

\* lines 31-39
ParametricSample ==
    /\ solver = "parametric" /\ pc = "sample"
    /\ path' = [n \in 1..(ParametricTotalSamples(args) + 1) |->
                  ParametricF(args.f, ParametricT(args, n - 1))]
    /\ evals' = evals + ParametricTotalSamples(args) + 1
    /\ idx' = 0
    /\ pc' = "mesh"
    /\ UNCHANGED <<host, solver, args, vertices, indices, parts, panicked, done>>

\* (mutation: test C, the jump test, dropped)
ParametricKeepsNear(a, p0, p1) ==
    /\ is_finite(p0[1]) /\ is_finite(p0[2]) /\ is_finite(p1[1]) /\ is_finite(p1[2])
    /\ ~ (dist_sq(p0, p1) = 0)

\* the tests A, B and C of lines 57-74
ParametricKeeps(a, p0, p1) ==
    /\ is_finite(p0[1]) /\ is_finite(p0[2]) /\ is_finite(p1[1]) /\ is_finite(p1[2])
    /\ ~ (dist_sq(p0, p1) = 0)
    /\ ~ (dist_sq(p0, p1) > max_jump_dist_sq(a))

\* lines 52-95: one iteration of the mesh loop
ParametricSegment ==
    /\ solver = "parametric" /\ pc = "mesh"
    /\ idx < Len(path) - 1
    /\ LET p0 == path[idx + 1]
           p1 == path[idx + 2]
       IN  vertices' =
             IF ParametricKeeps(args, p0, p1)
             THEN vertices \o Quad(p0, p1, sqrt(dist_sq(p0, p1)),
                                   half_width_world(args.width_px, args.zoom, args.screen_h))
             ELSE vertices
    /\ idx' = idx + 1
    /\ UNCHANGED <<host, solver, pc, args, path, indices, evals, parts, panicked, done>>

\* line 97
ParametricReturn ==
    /\ solver = "parametric" /\ pc = "mesh"
    /\ idx >= Len(path) - 1
    /\ pc' = "done"
    /\ UNCHANGED <<host, solver, args, path, idx, vertices, indices, evals, parts, panicked, done>>

(***************************************************************************)
(* Calls of the 2D ribbon solvers.                                         *)
(***************************************************************************)
MaxScreenW == 120       \* largest screen width a call is given

ZoomArgs == {Scale, Scale \div 5}

ExplicitArgs ==
    [f : ExplicitFns, x_min : {0, 6 * Scale}, x_max : {0, 6 * Scale},
     width_px : {6}, zoom : ZoomArgs, screen_w : {0, 80, MaxScreenW}, screen_h : {0, 600}]

ParametricArgs ==
    [f : ParametricFns, t_min : {0, 6 * Scale}, t_max : {0, 6 * Scale, 13 * Scale},
     width_px : {6}, zoom : ZoomArgs, aspect : {1}, screen_h : {0, 600}]

\* D2Plotter::new (main.rs lines 112-126).  state is whether the window state
\* is Some, size the inner size of the window, config the width and height
\* of the surface configuration.  A layer is the solver call whose vertices
\* its vertex buffer holds.  calls are the solver calls made by the last
\* handler, drawn the layers of the last frame presented, frames the number
\* of frames presented, events the number of calls and events handled.
D2PlotterNew ==
    [state |-> FALSE, size |-> <<0, 0>>, config |-> <<0, 0>>, layers |-> <<>>,
     objects |-> <<>>, center_x |-> 0, center_y |-> 0, zoom |-> Scale,
     is_dragging |-> FALSE, last_mouse_pos |-> <<>>, dirty |-> TRUE,
     calls |-> <<>>, drawn |-> <<>>, frames |-> 0, events |-> 0]

\* Env::new() (pakoo/env.rs).  last is the value the latest update returned,
\* fresh says that the latest call was an update that returned, updates
\* counts the update calls.
EnvNew == [slice |-> <<>>, data |-> <<>>, last |-> <<>>, fresh |-> FALSE, updates |-> 0]

InitBuffers ==
    /\ pc = "call" /\ path = <<>> /\ idx = 0 /\ vertices = <<>> /\ indices = <<>>
    /\ evals = 0 /\ parts = <<>> /\ panicked = FALSE /\ done = {}
    /\ returned = <<>> /\ plotter = D2PlotterNew /\ env = EnvNew

InitRibbon ==
    /\ \/ solver = "explicit" /\ args \in ExplicitArgs
       \/ solver = "parametric" /\ args \in ParametricArgs
    /\ InitBuffers

NextRibbon ==
    \/ ExplicitCall \/ ExplicitSample \/ ExplicitSegment \/ ExplicitReturn
    \/ ParametricCall \/ ParametricSample \/ ParametricSegment \/ ParametricReturn

SpecRibbon == InitRibbon /\ [][NextRibbon]_vars

(***************************************************************************)
(* MeshData::new_parametric_surface                                        *)
(***************************************************************************)
\* ParametricSurface: (f64, f64) -> Vec3.  args.hole is the (u, v) at which the
\* "hole" surface has the non-finite component args.bad (component args.badc).
\* The "brink_u" surface has that component for every u > 1.0 (as in
\* (u, v, 0.0 * (1.0 - u).sqrt())), the "brink_v" surface for every v > 1.0.
SurfaceFns == {"plane", "hole", "cliff", "brink_u", "brink_v"}
SurfaceF(a, u, v) ==
    IF u = NaN \/ v = NaN THEN <<NaN, NaN, NaN>>
    ELSE CASE a.f = "hole" /\ <<u, v>> = a.hole -> [<<u, v, 0>> EXCEPT ![a.badc] = a.bad]
           [] a.f = "cliff" /\ u > Scale         -> <<u, v, 20 * Scale>>
           [] a.f = "brink_u" /\ u > Scale       -> [<<u, v, 0>> EXCEPT ![a.badc] = a.bad]
           [] a.f = "brink_v" /\ v > Scale       -> [<<u, v, 0>> EXCEPT ![a.badc] = a.bad]
           [] OTHER                              -> <<u, v, 0>>

\* (func(u + eps, v) - func(u, v)) * (1.0 / eps) and the same along v, for a
\* finite func(u, v): the surfaces have the tangent vectors of a plane, but
\* on the brink (u = 1.0 or v = 1.0) the offset sample func(u + eps, v) or
\* func(u, v + eps) has the non-finite component and so has the difference
SurfaceDu(a, u, v) ==
    IF a.f = "brink_u" /\ u = Scale THEN [<<1, 0, 0>> EXCEPT ![a.badc] = a.bad]
    ELSE <<1, 0, 0>>
SurfaceDv(a, u, v) ==
    IF a.f = "brink_v" /\ v = Scale THEN [<<0, 1, 0>> EXCEPT ![a.badc] = a.bad]
    ELSE <<0, 1, 0>>

\* u_min + i * u_step with u_step = (u_max - u_min) / u_segments; with no
\* segment the step is infinite or NaN and 0 * u_step is NaN
GridCoord(lo, hi, segments, i) ==
    IF segments = 0 THEN NaN ELSE lo + (i * (hi - lo)) \div segments

\* (mutation: only pos.x is tested, as in the test of the neighbours)
SurfaceVertexAtXOnly(a, i, j) ==
    LET pos == SurfaceF(a, GridCoord(a.u_min, a.u_max, a.u_segments, i),
                           GridCoord(a.v_min, a.v_max, a.v_segments, j))
    IN  IF ~ is_finite(pos[1])
        THEN [position |-> <<NaN, NaN, NaN>>, normal |-> ZERO]
        ELSE [position |-> pos, normal |-> K]

\* lines 42-74: the vertex of sample (i, j)
SurfaceVertexAt(a, i, j) ==
    LET u == GridCoord(a.u_min, a.u_max, a.u_segments, i)
        v == GridCoord(a.v_min, a.v_max, a.v_segments, j)
        pos == SurfaceF(a, u, v)
        du == SurfaceDu(a, u, v)
        dv == SurfaceDv(a, u, v)
    IN  IF ~ VFinite(pos)
        THEN [position |-> <<NaN, NaN, NaN>>, normal |-> ZERO]
        ELSE [position |-> pos,
              normal |-> IF is_finite(du[1]) /\ is_finite(dv[1])
                         THEN unit(cross(du, dv), 0) ELSE K]

\* lines 40-77: one iteration of the vertex loop (idx = i * (v_segments + 1) + j)
SurfaceVertex ==
    /\ solver = "surface" /\ pc = "call"
    /\ idx < (args.u_segments + 1) * (args.v_segments + 1)
    /\ LET vx == SurfaceVertexAt(args, idx \div (args.v_segments + 1),
                                 idx % (args.v_segments + 1))
       IN  /\ vertices' = Append(vertices, vx)
           /\ evals' = evals + (IF vx.position[1] = NaN THEN 1 ELSE 3)
    /\ idx' = idx + 1
    /\ UNCHANGED <<host, solver, pc, args, path, indices, parts, panicked, done>>

SurfaceVerticesDone ==
    /\ solver = "surface" /\ pc = "call"
    /\ idx >= (args.u_segments + 1) * (args.v_segments + 1)
    /\ pc' = "indices" /\ idx' = 0
    /\ UNCHANGED <<host, solver, args, path, vertices, indices, evals, parts, panicked, done>>

JUMP_THRESHOLD_SQ == 100

d_sq(p1, p2) ==
    (p1[1] - p2[1]) * (p1[1] - p2[1]) + (p1[2] - p2[2]) * (p1[2] - p2[2])
      + (p1[3] - p2[3]) * (p1[3] - p2[3])

\* (mutation: the NaN test looks at the first two corners only)
is_valid_tri_two(p1, p2, p3) ==
    /\ ~ (p1[1] = NaN \/ p2[1] = NaN)
    /\ (p3[1] = NaN
          \/ ~ (\/ d_sq(p1, p2) > JUMP_THRESHOLD_SQ * Scale * Scale
                \/ d_sq(p2, p3) > JUMP_THRESHOLD_SQ * Scale * Scale
                \/ d_sq(p3, p1) > JUMP_THRESHOLD_SQ * Scale * Scale))
\* lines 104-123
is_valid_tri(p1, p2, p3) ==
    /\ ~ (p1[1] = NaN \/ p2[1] = NaN \/ p3[1] = NaN)
    /\ ~ (\/ d_sq(p1, p2) > JUMP_THRESHOLD_SQ * Scale * Scale
          \/ d_sq(p2, p3) > JUMP_THRESHOLD_SQ * Scale * Scale
          \/ d_sq(p3, p1) > JUMP_THRESHOLD_SQ * Scale * Scale)

\* (mutation: corner c is one vertex too far)
CellCornersFar(i, j, per_row) ==
    [a |-> i * per_row + j, b |-> i * per_row + j + 1,
     c |-> (i + 1) * per_row + j + 2, d |-> (i + 1) * per_row + j]
\* the corner indices a, b, c, d of cell (i, j), lines 88-95
CellCorners(i, j, per_row) ==
    [a |-> i * per_row + j, b |-> i * per_row + j + 1,
     c |-> (i + 1) * per_row + j + 1, d |-> (i + 1) * per_row + j]

\* lines 86-135: one iteration of the index loop (idx = i * v_segments + j);
\* vertices[k] panics when k is not below vertices.len()
SurfaceCell ==
    /\ solver = "surface" /\ pc = "indices"
    /\ idx < args.u_segments * args.v_segments
    /\ LET q == CellCorners(idx \div args.v_segments, idx % args.v_segments,
                            args.v_segments + 1)
       IN  IF \E k \in {q.a, q.b, q.c, q.d} : k >= Len(vertices)
           THEN /\ panicked' = TRUE /\ pc' = "panic"
                /\ UNCHANGED <<indices, idx>>
           ELSE LET pa == vertices[q.a + 1].position
                    pb == vertices[q.b + 1].position
                    pc_ == vertices[q.c + 1].position
                    pd == vertices[q.d + 1].position
                IN  /\ indices' = indices
                          \o (IF is_valid_tri(pa, pd, pb) THEN <<q.a, q.d, q.b>> ELSE <<>>)
                          \o (IF is_valid_tri(pb, pd, pc_) THEN <<q.b, q.d, q.c>> ELSE <<>>)
                    /\ idx' = idx + 1
                    /\ UNCHANGED <<pc, panicked, done>>
    /\ UNCHANGED <<host, solver, args, path, vertices, evals, parts, done>>

\* line 136
SurfaceReturn ==
    /\ solver = "surface" /\ pc = "indices"
    /\ idx >= args.u_segments * args.v_segments
    /\ pc' = "done"
    /\ UNCHANGED <<host, solver, args, path, idx, vertices, indices, evals, parts, panicked, done>>

MaxSegments == 3        \* largest u_segments / v_segments of a call

SurfaceHoles == {0, Scale, (3 * Scale) \div 2, 3 * Scale}

SurfaceArgs ==
    [f : {"plane", "cliff"}, u_min : {0, 3 * Scale}, u_max : {0, 3 * Scale},
     v_min : {0}, v_max : {0, 3 * Scale},
     u_segments : 0..MaxSegments, v_segments : 0..MaxSegments,
     hole : {<<0, 0>>}, badc : {1}, bad : {NaN}]
    \cup
    [f : {"hole"}, u_min : {0}, u_max : {3 * Scale}, v_min : {0}, v_max : {3 * Scale},
     u_segments : 0..MaxSegments, v_segments : 0..MaxSegments,
     hole : SurfaceHoles \X SurfaceHoles, badc : {1, 3}, bad : {NaN, PInf}]
    \cup
    [f : {"brink_u", "brink_v"}, u_min : {0}, u_max : {3 * Scale}, v_min : {0}, v_max : {3 * Scale},
     u_segments : 0..MaxSegments, v_segments : 0..MaxSegments,
     hole : {<<0, 0>>}, badc : {1, 2, 3}, bad : {NaN, PInf}]
    \cup
    [f : {"plane"}, u_min : {0}, u_max : {10 * Scale}, v_min : {0}, v_max : {0, 3 * Scale},
     u_segments : {1}, v_segments : 0..MaxSegments,
     hole : {<<0, 0>>}, badc : {1}, bad : {NaN}]

InitSurface == solver = "surface" /\ args \in SurfaceArgs /\ InitBuffers

NextSurface == SurfaceVertex \/ SurfaceVerticesDone \/ SurfaceCell \/ SurfaceReturn

SpecSurface == InitSurface /\ [][NextSurface]_vars

(***************************************************************************)
(* ParametricCurveSolver::solve (tube mesher), MeshData::new_plane and     *)
(* MeshData::new_axes                                                      *)
(***************************************************************************)
\* SpaceCurve closures: f64 -> Vec3.  Each has a tangent direction that
\* normalises exactly in the fixed-point unit.
CurveFns == {"line", "rise", "slant", "slow", "pole", "undefined"}
CurveF(fn, t) ==
    IF t = NaN THEN <<NaN, NaN, NaN>>
    ELSE CASE fn = "rise"      -> <<0, t, 0>>
           [] fn = "slant"     -> <<(3 * t) \div 5, (4 * t) \div 5, 0>>
           [] fn = "slow"      -> <<t \div 20, 0, 0>>
           [] fn = "pole"      -> \* (0, 1 / t, 0)
                                  <<0, DivCount(Scale * Scale, t), 0>>
           [] fn = "undefined" -> \* (ln-like) NaN left of 1
                                  IF t < Scale THEN <<NaN, NaN, NaN>> ELSE <<t - Scale, 0, 0>>
           [] OTHER            -> <<t, 0, 0>>

\* func(t + eps) - func(t) for eps = 1e-9, in units of eps / Scale (the
\* derivative of the closure, times eps); a non-finite func(t) makes the
\* difference non-finite by the IEEE rules (func(t + eps) is finite just
\* right of the pole: 1e9)
CurveDiff(fn, t) ==
    LET pos == CurveF(fn, t)
        next == CASE fn = "pole"  -> <<0, Scale * Scale, 0>>
                  [] OTHER        -> pos
        d == CASE fn = "rise"  -> <<0, Scale, 0>>
               [] fn = "slant" -> <<(3 * Scale) \div 5, (4 * Scale) \div 5, 0>>
               [] fn = "slow"  -> <<Scale \div 20, 0, 0>>
               [] fn = "pole"  -> <<0, 0 - DivCount(Scale * Scale * Scale, t * t), 0>>
               [] OTHER        -> <<Scale, 0, 0>>
    IN  IF VFinite(pos) THEN d ELSE VSub(next, pos)

\* (sin, cos) of theta = (j / tube_segments) * TAU, exact for the segment
\* counts of TubeSegmentCounts; 0 / 0 is NaN
sin_cos(j, tube_segments) ==
    IF tube_segments = 0 THEN <<NaN, NaN>>
    ELSE LET q == (4 * j) \div tube_segments        \* theta in quarter turns
         IN  CASE q % 4 = 0 -> <<0, 1>>
               [] q % 4 = 1 -> <<1, 0>>
               [] q % 4 = 2 -> <<0, 0 - 1>>
               [] OTHER     -> <<0 - 1, 0>>

\* lines 44-52: the tangent estimated at path sample i (1e-10 = EPSILON is
\* Scale / 10 in the units of CurveDiff)
TubeTangent(a, i) ==
    unit(CurveDiff(a.f, GridCoord(a.t_min, a.t_max, a.path_segments, i)), Scale \div 10)

\* lines 44-69: the frame of path sample i
TubeFrameAt(a, i) ==
    LET tangent == TubeTangent(a, i)
        d == dot(tangent, J)
        helper == IF d # NaN /\ 100 * Abs(d) > 99 * Scale THEN K ELSE J
        normal == unit(cross(tangent, helper), 0)
    IN  [pos |-> CurveF(a.f, GridCoord(a.t_min, a.t_max, a.path_segments, i)),
         normal |-> normal,
         binormal |-> unit(cross(tangent, normal), 0)]

\* lines 76-93: vertex j of the ring of a frame
TubeVertexAt(a, frame, j) ==
    LET sc == sin_cos(j, a.tube_segments)
        offset_dir == VAdd(VScale(frame.normal, sc[2]), VScale(frame.binormal, sc[1]))
        r == VScale(offset_dir, a.radius)
    IN  [position |-> VAdd(frame.pos,
                           [n \in 1..3 |-> IF is_finite(r[n]) THEN r[n] \div Scale ELSE r[n]]),
         normal |-> unit(offset_dir, 0)]

\* lines 43-70: one iteration of the frame loop
TubeFrame ==
    /\ solver = "tube" /\ pc = "call"
    /\ path' = Append(path, TubeFrameAt(args, idx))
    /\ evals' = evals + 2
    /\ IF idx < args.path_segments
       THEN idx' = idx + 1 /\ pc' = pc
       ELSE idx' = 0 /\ pc' = "vertices"
    /\ UNCHANGED <<host, solver, args, vertices, indices, parts, panicked, done>>

\* (mutation: the ring is not closed by a vertex at theta = 2 pi)
verts_per_ring_open(a) == a.tube_segments
\* line 98 (and the bounds 0..=tube_segments of line 76)
verts_per_ring(a) == a.tube_segments + 1

\* lines 73-95: one iteration of the outer vertex loop (ring idx); frames[i]
\* panics when i is not below frames.len()
TubeRing ==
    /\ solver = "tube" /\ pc = "vertices"
    /\ IF idx >= Len(path)
       THEN /\ panicked' = TRUE /\ pc' = "panic"
            /\ UNCHANGED <<vertices, idx>>
       ELSE /\ vertices' = vertices \o
                   [j \in 1..verts_per_ring(args) |-> TubeVertexAt(args, path[idx + 1], j - 1)]
            /\ IF idx < args.path_segments
               THEN idx' = idx + 1 /\ pc' = pc
               ELSE idx' = 0 /\ pc' = "indices"
            /\ UNCHANGED panicked
    /\ UNCHANGED <<host, solver, args, path, indices, evals, parts, done>>

\* lines 100-115: one iteration of the outer index loop (rings idx, idx + 1)
TubeStrip ==
    /\ solver = "tube" /\ pc = "indices"
    /\ idx < args.path_segments
    /\ indices' = indices \o
           [n \in 1..(6 * args.tube_segments) |->
               LET q == CellCorners(idx, (n - 1) \div 6, verts_per_ring(args))
               IN  <<q.a, q.d, q.b, q.b, q.d, q.c>>[((n - 1) % 6) + 1]]
    /\ idx' = idx + 1
    /\ UNCHANGED <<host, solver, pc, args, path, vertices, evals, parts, panicked, done>>

\* line 117
TubeReturn ==
    /\ solver = "tube" /\ pc = "indices"
    /\ idx >= args.path_segments
    /\ pc' = "done"
    /\ UNCHANGED <<host, solver, args, path, idx, vertices, indices, evals, parts, panicked, done>>

MaxPathSegments == 3        \* largest path_segments of a call
TubeSegmentCounts == {0, 1, 2, 4}

TubeArgs ==
    [f : CurveFns, t_min : {0 - 3 * Scale, 0}, t_max : {0, 3 * Scale},
     radius : {Scale \div 2}, tube_segments : TubeSegmentCounts,
     path_segments : 0..MaxPathSegments]

\* mesh.rs lines 140-166 and 169-193: the whole constructor is one step
new_axes ==
    /\ solver = "axes" /\ pc = "call"
    /\ vertices' = [n \in 1..4 |->
                       [position |-> [c \in 1..3 |-> IF c = n - 1 THEN args.length ELSE 0],
                        normal |-> ZERO]]
    /\ indices' = <<0, 1, 0, 2, 0, 3>>
    /\ pc' = "done"
    /\ UNCHANGED <<host, solver, args, path, idx, evals, parts, panicked, done>>

new_plane ==
    /\ solver = "plane" /\ pc = "call"
    /\ LET h == args.size \div 2
       IN  vertices' = [n \in 1..4 |->
                           [position |-> <<IF n \in {2, 3} THEN h ELSE 0 - h,
                                           IF n \in {3, 4} THEN h ELSE 0 - h, 0>>,
                            normal |-> K]]
    /\ indices' = <<0, 1, 2, 0, 2, 3>>
    /\ pc' = "done"
    /\ UNCHANGED <<host, solver, args, path, idx, evals, parts, panicked, done>>

InitTube ==
    /\ \/ solver = "tube" /\ args \in TubeArgs
       \/ solver = "axes" /\ args \in [length : {0, Scale, 5 * Scale}]
       \/ solver = "plane" /\ args \in [size : {0, Scale, 20 * Scale}]
    /\ InitBuffers

NextTube == TubeFrame \/ TubeRing \/ TubeStrip \/ TubeReturn \/ new_axes \/ new_plane

SpecTube == InitTube /\ [][NextTube]_vars

(***************************************************************************)
(* ImplicitSurfaceSolver::solve (marching cubes)                           *)
(*                                                                         *)
(* implicit_data.rs (EDGE_TABLE, TRI_TABLE) is not part of the sources;    *)
(* the two tables are the standard Paul Bourke tables the specification    *)
(* names: EDGE_TABLE[c] has bit e set iff the two corners of edge e are on *)
(* different sides, TRI_TABLE[c] lists up to five triangles as edge        *)
(* numbers, padded with -1 to 16 entries.                                  *)
(***************************************************************************)
EDGE_TABLE ==
    <<0, 265, 515, 778, 1030, 1295, 1541, 1804, 2060, 2309, 2575, 2822, 3082, 3331, 3593, 3840,
      400, 153, 915, 666, 1430, 1183, 1941, 1692, 2460, 2197, 2975, 2710, 3482, 3219, 3993, 3728,
      560, 825, 51, 314, 1590, 1855, 1077, 1340, 2620, 2869, 2111, 2358, 3642, 3891, 3129, 3376,
      928, 681, 419, 170, 1958, 1711, 1445, 1196, 2988, 2725, 2479, 2214, 4010, 3747, 3497, 3232,
      1120, 1385, 1635, 1898, 102, 367, 613, 876, 3180, 3429, 3695, 3942, 2154, 2403, 2665, 2912,
      1520, 1273, 2035, 1786, 502, 255, 1013, 764, 3580, 3317, 4095, 3830, 2554, 2291, 3065, 2800,
      1616, 1881, 1107, 1370, 598, 863, 85, 348, 3676, 3925, 3167, 3414, 2650, 2899, 2137, 2384,
      1984, 1737, 1475, 1226, 966, 719, 453, 204, 4044, 3781, 3535, 3270, 3018, 2755, 2505, 2240,
      2240, 2505, 2755, 3018, 3270, 3535, 3781, 4044, 204, 453, 719, 966, 1226, 1475, 1737, 1984,
      2384, 2137, 2899, 2650, 3414, 3167, 3925, 3676, 348, 85, 863, 598, 1370, 1107, 1881, 1616,
      2800, 3065, 2291, 2554, 3830, 4095, 3317, 3580, 764, 1013, 255, 502, 1786, 2035, 1273, 1520,
      2912, 2665, 2403, 2154, 3942, 3695, 3429, 3180, 876, 613, 367, 102, 1898, 1635, 1385, 1120,
      3232, 3497, 3747, 4010, 2214, 2479, 2725, 2988, 1196, 1445, 1711, 1958, 170, 419, 681, 928,
      3376, 3129, 3891, 3642, 2358, 2111, 2869, 2620, 1340, 1077, 1855, 1590, 314, 51, 825, 560,
      3728, 3993, 3219, 3482, 2710, 2975, 2197, 2460, 1692, 1941, 1183, 1430, 666, 915, 153, 400,
      3840, 3593, 3331, 3082, 2822, 2575, 2309, 2060, 1804, 1541, 1295, 1030, 778, 515, 265, 0>>

TRI_TABLE ==
    <<<<-1, -1, -1, -1, -1, -1, -1, -1, -1, -1, -1, -1, -1, -1, -1, -1>>,
      <<0, 8, 3, -1, -1, -1, -1, -1, -1, -1, -1, -1, -1, -1, -1, -1>>,
      <<0, 1, 9, -1, -1, -1, -1, -1, -1, -1, -1, -1, -1, -1, -1, -1>>,
      <<1, 8, 3, 9, 8, 1, -1, -1, -1, -1, -1, -1, -1, -1, -1, -1>>,
      <<1, 2, 10, -1, -1, -1, -1, -1, -1, -1, -1, -1, -1, -1, -1, -1>>,
      <<0, 8, 3, 1, 2, 10, -1, -1, -1, -1, -1, -1, -1, -1, -1, -1>>,
      <<9, 2, 10, 0, 2, 9, -1, -1, -1, -1, -1, -1, -1, -1, -1, -1>>,
      <<2, 8, 3, 2, 10, 8, 10, 9, 8, -1, -1, -1, -1, -1, -1, -1>>,
      <<3, 11, 2, -1, -1, -1, -1, -1, -1, -1, -1, -1, -1, -1, -1, -1>>,
      <<0, 11, 2, 8, 11, 0, -1, -1, -1, -1, -1, -1, -1, -1, -1, -1>>,
      <<1, 9, 0, 2, 3, 11, -1, -1, -1, -1, -1, -1, -1, -1, -1, -1>>,
      <<1, 11, 2, 1, 9, 11, 9, 8, 11, -1, -1, -1, -1, -1, -1, -1>>,
      <<3, 10, 1, 11, 10, 3, -1, -1, -1, -1, -1, -1, -1, -1, -1, -1>>,
      <<0, 10, 1, 0, 8, 10, 8, 11, 10, -1, -1, -1, -1, -1, -1, -1>>,
      <<3, 9, 0, 3, 11, 9, 11, 10, 9, -1, -1, -1, -1, -1, -1, -1>>,
      <<9, 8, 10, 10, 8, 11, -1, -1, -1, -1, -1, -1, -1, -1, -1, -1>>,
      <<4, 7, 8, -1, -1, -1, -1, -1, -1, -1, -1, -1, -1, -1, -1, -1>>,
      <<4, 3, 0, 7, 3, 4, -1, -1, -1, -1, -1, -1, -1, -1, -1, -1>>,
      <<0, 1, 9, 8, 4, 7, -1, -1, -1, -1, -1, -1, -1, -1, -1, -1>>,
      <<4, 1, 9, 4, 7, 1, 7, 3, 1, -1, -1, -1, -1, -1, -1, -1>>,
      <<1, 2, 10, 8, 4, 7, -1, -1, -1, -1, -1, -1, -1, -1, -1, -1>>,
      <<3, 4, 7, 3, 0, 4, 1, 2, 10, -1, -1, -1, -1, -1, -1, -1>>,
      <<9, 2, 10, 9, 0, 2, 8, 4, 7, -1, -1, -1, -1, -1, -1, -1>>,
      <<2, 10, 9, 2, 9, 7, 2, 7, 3, 7, 9, 4, -1, -1, -1, -1>>,
      <<8, 4, 7, 3, 11, 2, -1, -1, -1, -1, -1, -1, -1, -1, -1, -1>>,
      <<11, 4, 7, 11, 2, 4, 2, 0, 4, -1, -1, -1, -1, -1, -1, -1>>,
      <<9, 0, 1, 8, 4, 7, 2, 3, 11, -1, -1, -1, -1, -1, -1, -1>>,
      <<4, 7, 11, 9, 4, 11, 9, 11, 2, 9, 2, 1, -1, -1, -1, -1>>,
      <<3, 10, 1, 3, 11, 10, 7, 8, 4, -1, -1, -1, -1, -1, -1, -1>>,
      <<1, 11, 10, 1, 4, 11, 1, 0, 4, 7, 11, 4, -1, -1, -1, -1>>,
      <<4, 7, 8, 9, 0, 11, 9, 11, 10, 11, 0, 3, -1, -1, -1, -1>>,
      <<4, 7, 11, 4, 11, 9, 9, 11, 10, -1, -1, -1, -1, -1, -1, -1>>,
      <<9, 5, 4, -1, -1, -1, -1, -1, -1, -1, -1, -1, -1, -1, -1, -1>>,
      <<9, 5, 4, 0, 8, 3, -1, -1, -1, -1, -1, -1, -1, -1, -1, -1>>,
      <<0, 5, 4, 1, 5, 0, -1, -1, -1, -1, -1, -1, -1, -1, -1, -1>>,
      <<8, 5, 4, 8, 3, 5, 3, 1, 5, -1, -1, -1, -1, -1, -1, -1>>,
      <<1, 2, 10, 9, 5, 4, -1, -1, -1, -1, -1, -1, -1, -1, -1, -1>>,
      <<3, 0, 8, 1, 2, 10, 4, 9, 5, -1, -1, -1, -1, -1, -1, -1>>,
      <<5, 2, 10, 5, 4, 2, 4, 0, 2, -1, -1, -1, -1, -1, -1, -1>>,
      <<2, 10, 5, 3, 2, 5, 3, 5, 4, 3, 4, 8, -1, -1, -1, -1>>,
      <<9, 5, 4, 2, 3, 11, -1, -1, -1, -1, -1, -1, -1, -1, -1, -1>>,
      <<0, 11, 2, 0, 8, 11, 4, 9, 5, -1, -1, -1, -1, -1, -1, -1>>,
      <<0, 5, 4, 0, 1, 5, 2, 3, 11, -1, -1, -1, -1, -1, -1, -1>>,
      <<2, 1, 5, 2, 5, 8, 2, 8, 11, 4, 8, 5, -1, -1, -1, -1>>,
      <<10, 3, 11, 10, 1, 3, 9, 5, 4, -1, -1, -1, -1, -1, -1, -1>>,
      <<4, 9, 5, 0, 8, 1, 8, 10, 1, 8, 11, 10, -1, -1, -1, -1>>,
      <<5, 4, 0, 5, 0, 11, 5, 11, 10, 11, 0, 3, -1, -1, -1, -1>>,
      <<5, 4, 8, 5, 8, 10, 10, 8, 11, -1, -1, -1, -1, -1, -1, -1>>,
      <<9, 7, 8, 5, 7, 9, -1, -1, -1, -1, -1, -1, -1, -1, -1, -1>>,
      <<9, 3, 0, 9, 5, 3, 5, 7, 3, -1, -1, -1, -1, -1, -1, -1>>,
      <<0, 7, 8, 0, 1, 7, 1, 5, 7, -1, -1, -1, -1, -1, -1, -1>>,
      <<1, 5, 3, 3, 5, 7, -1, -1, -1, -1, -1, -1, -1, -1, -1, -1>>,
      <<9, 7, 8, 9, 5, 7, 10, 1, 2, -1, -1, -1, -1, -1, -1, -1>>,
      <<10, 1, 2, 9, 5, 0, 5, 3, 0, 5, 7, 3, -1, -1, -1, -1>>,
      <<8, 0, 2, 8, 2, 5, 8, 5, 7, 10, 5, 2, -1, -1, -1, -1>>,
      <<2, 10, 5, 2, 5, 3, 3, 5, 7, -1, -1, -1, -1, -1, -1, -1>>,
      <<7, 9, 5, 7, 8, 9, 3, 11, 2, -1, -1, -1, -1, -1, -1, -1>>,
      <<9, 5, 7, 9, 7, 2, 9, 2, 0, 2, 7, 11, -1, -1, -1, -1>>,
      <<2, 3, 11, 0, 1, 8, 1, 7, 8, 1, 5, 7, -1, -1, -1, -1>>,
      <<11, 2, 1, 11, 1, 7, 7, 1, 5, -1, -1, -1, -1, -1, -1, -1>>,
      <<9, 5, 8, 8, 5, 7, 10, 1, 3, 10, 3, 11, -1, -1, -1, -1>>,
      <<5, 7, 0, 5, 0, 9, 7, 11, 0, 1, 0, 10, 11, 10, 0, -1>>,
      <<11, 10, 0, 11, 0, 3, 10, 5, 0, 8, 0, 7, 5, 7, 0, -1>>,
      <<11, 10, 5, 7, 11, 5, -1, -1, -1, -1, -1, -1, -1, -1, -1, -1>>,
      <<10, 6, 5, -1, -1, -1, -1, -1, -1, -1, -1, -1, -1, -1, -1, -1>>,
      <<0, 8, 3, 5, 10, 6, -1, -1, -1, -1, -1, -1, -1, -1, -1, -1>>,
      <<9, 0, 1, 5, 10, 6, -1, -1, -1, -1, -1, -1, -1, -1, -1, -1>>,
      <<1, 8, 3, 1, 9, 8, 5, 10, 6, -1, -1, -1, -1, -1, -1, -1>>,
      <<1, 6, 5, 2, 6, 1, -1, -1, -1, -1, -1, -1, -1, -1, -1, -1>>,
      <<1, 6, 5, 1, 2, 6, 3, 0, 8, -1, -1, -1, -1, -1, -1, -1>>,
      <<9, 6, 5, 9, 0, 6, 0, 2, 6, -1, -1, -1, -1, -1, -1, -1>>,
      <<5, 9, 8, 5, 8, 2, 5, 2, 6, 3, 2, 8, -1, -1, -1, -1>>,
      <<2, 3, 11, 10, 6, 5, -1, -1, -1, -1, -1, -1, -1, -1, -1, -1>>,
      <<11, 0, 8, 11, 2, 0, 10, 6, 5, -1, -1, -1, -1, -1, -1, -1>>,
      <<0, 1, 9, 2, 3, 11, 5, 10, 6, -1, -1, -1, -1, -1, -1, -1>>,
      <<5, 10, 6, 1, 9, 2, 9, 11, 2, 9, 8, 11, -1, -1, -1, -1>>,
      <<6, 3, 11, 6, 5, 3, 5, 1, 3, -1, -1, -1, -1, -1, -1, -1>>,
      <<0, 8, 11, 0, 11, 5, 0, 5, 1, 5, 11, 6, -1, -1, -1, -1>>,
      <<3, 11, 6, 0, 3, 6, 0, 6, 5, 0, 5, 9, -1, -1, -1, -1>>,
      <<6, 5, 9, 6, 9, 11, 11, 9, 8, -1, -1, -1, -1, -1, -1, -1>>,
      <<5, 10, 6, 4, 7, 8, -1, -1, -1, -1, -1, -1, -1, -1, -1, -1>>,
      <<4, 3, 0, 4, 7, 3, 6, 5, 10, -1, -1, -1, -1, -1, -1, -1>>,
      <<1, 9, 0, 5, 10, 6, 8, 4, 7, -1, -1, -1, -1, -1, -1, -1>>,
      <<10, 6, 5, 1, 9, 7, 1, 7, 3, 7, 9, 4, -1, -1, -1, -1>>,
      <<6, 1, 2, 6, 5, 1, 4, 7, 8, -1, -1, -1, -1, -1, -1, -1>>,
      <<1, 2, 5, 5, 2, 6, 3, 0, 4, 3, 4, 7, -1, -1, -1, -1>>,
      <<8, 4, 7, 9, 0, 5, 0, 6, 5, 0, 2, 6, -1, -1, -1, -1>>,
      <<7, 3, 9, 7, 9, 4, 3, 2, 9, 5, 9, 6, 2, 6, 9, -1>>,
      <<3, 11, 2, 7, 8, 4, 10, 6, 5, -1, -1, -1, -1, -1, -1, -1>>,
      <<5, 10, 6, 4, 7, 2, 4, 2, 0, 2, 7, 11, -1, -1, -1, -1>>,
      <<0, 1, 9, 4, 7, 8, 2, 3, 11, 5, 10, 6, -1, -1, -1, -1>>,
      <<9, 2, 1, 9, 11, 2, 9, 4, 11, 7, 11, 4, 5, 10, 6, -1>>,
      <<8, 4, 7, 3, 11, 5, 3, 5, 1, 5, 11, 6, -1, -1, -1, -1>>,
      <<5, 1, 11, 5, 11, 6, 1, 0, 11, 7, 11, 4, 0, 4, 11, -1>>,
      <<0, 5, 9, 0, 6, 5, 0, 3, 6, 11, 6, 3, 8, 4, 7, -1>>,
      <<6, 5, 9, 6, 9, 11, 4, 7, 9, 7, 11, 9, -1, -1, -1, -1>>,
      <<10, 4, 9, 6, 4, 10, -1, -1, -1, -1, -1, -1, -1, -1, -1, -1>>,
      <<4, 10, 6, 4, 9, 10, 0, 8, 3, -1, -1, -1, -1, -1, -1, -1>>,
      <<10, 0, 1, 10, 6, 0, 6, 4, 0, -1, -1, -1, -1, -1, -1, -1>>,
      <<8, 3, 1, 8, 1, 6, 8, 6, 4, 6, 1, 10, -1, -1, -1, -1>>,
      <<1, 4, 9, 1, 2, 4, 2, 6, 4, -1, -1, -1, -1, -1, -1, -1>>,
      <<3, 0, 8, 1, 2, 9, 2, 4, 9, 2, 6, 4, -1, -1, -1, -1>>,
      <<0, 2, 4, 4, 2, 6, -1, -1, -1, -1, -1, -1, -1, -1, -1, -1>>,
      <<8, 3, 2, 8, 2, 4, 4, 2, 6, -1, -1, -1, -1, -1, -1, -1>>,
      <<10, 4, 9, 10, 6, 4, 11, 2, 3, -1, -1, -1, -1, -1, -1, -1>>,
      <<0, 8, 2, 2, 8, 11, 4, 9, 10, 4, 10, 6, -1, -1, -1, -1>>,
      <<3, 11, 2, 0, 1, 6, 0, 6, 4, 6, 1, 10, -1, -1, -1, -1>>,
      <<6, 4, 1, 6, 1, 10, 4, 8, 1, 2, 1, 11, 8, 11, 1, -1>>,
      <<9, 6, 4, 9, 3, 6, 9, 1, 3, 11, 6, 3, -1, -1, -1, -1>>,
      <<8, 11, 1, 8, 1, 0, 11, 6, 1, 9, 1, 4, 6, 4, 1, -1>>,
      <<3, 11, 6, 3, 6, 0, 0, 6, 4, -1, -1, -1, -1, -1, -1, -1>>,
      <<6, 4, 8, 11, 6, 8, -1, -1, -1, -1, -1, -1, -1, -1, -1, -1>>,
      <<7, 10, 6, 7, 8, 10, 8, 9, 10, -1, -1, -1, -1, -1, -1, -1>>,
      <<0, 7, 3, 0, 10, 7, 0, 9, 10, 6, 7, 10, -1, -1, -1, -1>>,
      <<10, 6, 7, 1, 10, 7, 1, 7, 8, 1, 8, 0, -1, -1, -1, -1>>,
      <<10, 6, 7, 10, 7, 1, 1, 7, 3, -1, -1, -1, -1, -1, -1, -1>>,
      <<1, 2, 6, 1, 6, 8, 1, 8, 9, 8, 6, 7, -1, -1, -1, -1>>,
      <<2, 6, 9, 2, 9, 1, 6, 7, 9, 0, 9, 3, 7, 3, 9, -1>>,
      <<7, 8, 0, 7, 0, 6, 6, 0, 2, -1, -1, -1, -1, -1, -1, -1>>,
      <<7, 3, 2, 6, 7, 2, -1, -1, -1, -1, -1, -1, -1, -1, -1, -1>>,
      <<2, 3, 11, 10, 6, 8, 10, 8, 9, 8, 6, 7, -1, -1, -1, -1>>,
      <<2, 0, 7, 2, 7, 11, 0, 9, 7, 6, 7, 10, 9, 10, 7, -1>>,
      <<1, 8, 0, 1, 7, 8, 1, 10, 7, 6, 7, 10, 2, 3, 11, -1>>,
      <<11, 2, 1, 11, 1, 7, 10, 6, 1, 6, 7, 1, -1, -1, -1, -1>>,
      <<8, 9, 6, 8, 6, 7, 9, 1, 6, 11, 6, 3, 1, 3, 6, -1>>,
      <<0, 9, 1, 11, 6, 7, -1, -1, -1, -1, -1, -1, -1, -1, -1, -1>>,
      <<7, 8, 0, 7, 0, 6, 3, 11, 0, 11, 6, 0, -1, -1, -1, -1>>,
      <<7, 11, 6, -1, -1, -1, -1, -1, -1, -1, -1, -1, -1, -1, -1, -1>>,
      <<7, 6, 11, -1, -1, -1, -1, -1, -1, -1, -1, -1, -1, -1, -1, -1>>,
      <<3, 0, 8, 11, 7, 6, -1, -1, -1, -1, -1, -1, -1, -1, -1, -1>>,
      <<0, 1, 9, 11, 7, 6, -1, -1, -1, -1, -1, -1, -1, -1, -1, -1>>,
      <<8, 1, 9, 8, 3, 1, 11, 7, 6, -1, -1, -1, -1, -1, -1, -1>>,
      <<10, 1, 2, 6, 11, 7, -1, -1, -1, -1, -1, -1, -1, -1, -1, -1>>,
      <<1, 2, 10, 3, 0, 8, 6, 11, 7, -1, -1, -1, -1, -1, -1, -1>>,
      <<2, 9, 0, 2, 10, 9, 6, 11, 7, -1, -1, -1, -1, -1, -1, -1>>,
      <<6, 11, 7, 2, 10, 3, 10, 8, 3, 10, 9, 8, -1, -1, -1, -1>>,
      <<7, 2, 3, 6, 2, 7, -1, -1, -1, -1, -1, -1, -1, -1, -1, -1>>,
      <<7, 0, 8, 7, 6, 0, 6, 2, 0, -1, -1, -1, -1, -1, -1, -1>>,
      <<2, 7, 6, 2, 3, 7, 0, 1, 9, -1, -1, -1, -1, -1, -1, -1>>,
      <<1, 6, 2, 1, 8, 6, 1, 9, 8, 8, 7, 6, -1, -1, -1, -1>>,
      <<10, 7, 6, 10, 1, 7, 1, 3, 7, -1, -1, -1, -1, -1, -1, -1>>,
      <<10, 7, 6, 1, 7, 10, 1, 8, 7, 1, 0, 8, -1, -1, -1, -1>>,
      <<0, 3, 7, 0, 7, 10, 0, 10, 9, 6, 10, 7, -1, -1, -1, -1>>,
      <<7, 6, 10, 7, 10, 8, 8, 10, 9, -1, -1, -1, -1, -1, -1, -1>>,
      <<6, 8, 4, 11, 8, 6, -1, -1, -1, -1, -1, -1, -1, -1, -1, -1>>,
      <<3, 6, 11, 3, 0, 6, 0, 4, 6, -1, -1, -1, -1, -1, -1, -1>>,
      <<8, 6, 11, 8, 4, 6, 9, 0, 1, -1, -1, -1, -1, -1, -1, -1>>,
      <<9, 4, 6, 9, 6, 3, 9, 3, 1, 11, 3, 6, -1, -1, -1, -1>>,
      <<6, 8, 4, 6, 11, 8, 2, 10, 1, -1, -1, -1, -1, -1, -1, -1>>,
      <<1, 2, 10, 3, 0, 11, 0, 6, 11, 0, 4, 6, -1, -1, -1, -1>>,
      <<4, 11, 8, 4, 6, 11, 0, 2, 9, 2, 10, 9, -1, -1, -1, -1>>,
      <<10, 9, 3, 10, 3, 2, 9, 4, 3, 11, 3, 6, 4, 6, 3, -1>>,
      <<8, 2, 3, 8, 4, 2, 4, 6, 2, -1, -1, -1, -1, -1, -1, -1>>,
      <<0, 4, 2, 4, 6, 2, -1, -1, -1, -1, -1, -1, -1, -1, -1, -1>>,
      <<1, 9, 0, 2, 3, 4, 2, 4, 6, 4, 3, 8, -1, -1, -1, -1>>,
      <<1, 9, 4, 1, 4, 2, 2, 4, 6, -1, -1, -1, -1, -1, -1, -1>>,
      <<8, 1, 3, 8, 6, 1, 8, 4, 6, 6, 10, 1, -1, -1, -1, -1>>,
      <<10, 1, 0, 10, 0, 6, 6, 0, 4, -1, -1, -1, -1, -1, -1, -1>>,
      <<4, 6, 3, 4, 3, 8, 6, 10, 3, 0, 3, 9, 10, 9, 3, -1>>,
      <<10, 9, 4, 6, 10, 4, -1, -1, -1, -1, -1, -1, -1, -1, -1, -1>>,
      <<4, 9, 5, 7, 6, 11, -1, -1, -1, -1, -1, -1, -1, -1, -1, -1>>,
      <<0, 8, 3, 4, 9, 5, 11, 7, 6, -1, -1, -1, -1, -1, -1, -1>>,
      <<5, 0, 1, 5, 4, 0, 7, 6, 11, -1, -1, -1, -1, -1, -1, -1>>,
      <<11, 7, 6, 8, 3, 4, 3, 5, 4, 3, 1, 5, -1, -1, -1, -1>>,
      <<9, 5, 4, 10, 1, 2, 7, 6, 11, -1, -1, -1, -1, -1, -1, -1>>,
      <<6, 11, 7, 1, 2, 10, 0, 8, 3, 4, 9, 5, -1, -1, -1, -1>>,
      <<7, 6, 11, 5, 4, 10, 4, 2, 10, 4, 0, 2, -1, -1, -1, -1>>,
      <<3, 4, 8, 3, 5, 4, 3, 2, 5, 10, 5, 2, 11, 7, 6, -1>>,
      <<7, 2, 3, 7, 6, 2, 5, 4, 9, -1, -1, -1, -1, -1, -1, -1>>,
      <<9, 5, 4, 0, 8, 6, 0, 6, 2, 6, 8, 7, -1, -1, -1, -1>>,
      <<3, 6, 2, 3, 7, 6, 1, 5, 0, 5, 4, 0, -1, -1, -1, -1>>,
      <<6, 2, 8, 6, 8, 7, 2, 1, 8, 4, 8, 5, 1, 5, 8, -1>>,
      <<9, 5, 4, 10, 1, 6, 1, 7, 6, 1, 3, 7, -1, -1, -1, -1>>,
      <<1, 6, 10, 1, 7, 6, 1, 0, 7, 8, 7, 0, 9, 5, 4, -1>>,
      <<4, 0, 10, 4, 10, 5, 0, 3, 10, 6, 10, 7, 3, 7, 10, -1>>,
      <<7, 6, 10, 7, 10, 8, 5, 4, 10, 4, 8, 10, -1, -1, -1, -1>>,
      <<6, 9, 5, 6, 11, 9, 11, 8, 9, -1, -1, -1, -1, -1, -1, -1>>,
      <<3, 6, 11, 0, 6, 3, 0, 5, 6, 0, 9, 5, -1, -1, -1, -1>>,
      <<0, 11, 8, 0, 5, 11, 0, 1, 5, 5, 6, 11, -1, -1, -1, -1>>,
      <<6, 11, 3, 6, 3, 5, 5, 3, 1, -1, -1, -1, -1, -1, -1, -1>>,
      <<1, 2, 10, 9, 5, 11, 9, 11, 8, 11, 5, 6, -1, -1, -1, -1>>,
      <<0, 11, 3, 0, 6, 11, 0, 9, 6, 5, 6, 9, 1, 2, 10, -1>>,
      <<11, 8, 5, 11, 5, 6, 8, 0, 5, 10, 5, 2, 0, 2, 5, -1>>,
      <<6, 11, 3, 6, 3, 5, 2, 10, 3, 10, 5, 3, -1, -1, -1, -1>>,
      <<5, 8, 9, 5, 2, 8, 5, 6, 2, 3, 8, 2, -1, -1, -1, -1>>,
      <<9, 5, 6, 9, 6, 0, 0, 6, 2, -1, -1, -1, -1, -1, -1, -1>>,
      <<1, 5, 8, 1, 8, 0, 5, 6, 8, 3, 8, 2, 6, 2, 8, -1>>,
      <<1, 5, 6, 2, 1, 6, -1, -1, -1, -1, -1, -1, -1, -1, -1, -1>>,
      <<1, 3, 6, 1, 6, 10, 3, 8, 6, 5, 6, 9, 8, 9, 6, -1>>,
      <<10, 1, 0, 10, 0, 6, 9, 5, 0, 5, 6, 0, -1, -1, -1, -1>>,
      <<0, 3, 8, 5, 6, 10, -1, -1, -1, -1, -1, -1, -1, -1, -1, -1>>,
      <<10, 5, 6, -1, -1, -1, -1, -1, -1, -1, -1, -1, -1, -1, -1, -1>>,
      <<11, 5, 10, 7, 5, 11, -1, -1, -1, -1, -1, -1, -1, -1, -1, -1>>,
      <<11, 5, 10, 11, 7, 5, 8, 3, 0, -1, -1, -1, -1, -1, -1, -1>>,
      <<5, 11, 7, 5, 10, 11, 1, 9, 0, -1, -1, -1, -1, -1, -1, -1>>,
      <<10, 7, 5, 10, 11, 7, 9, 8, 1, 8, 3, 1, -1, -1, -1, -1>>,
      <<11, 1, 2, 11, 7, 1, 7, 5, 1, -1, -1, -1, -1, -1, -1, -1>>,
      <<0, 8, 3, 1, 2, 7, 1, 7, 5, 7, 2, 11, -1, -1, -1, -1>>,
      <<9, 7, 5, 9, 2, 7, 9, 0, 2, 2, 11, 7, -1, -1, -1, -1>>,
      <<7, 5, 2, 7, 2, 11, 5, 9, 2, 3, 2, 8, 9, 8, 2, -1>>,
      <<2, 5, 10, 2, 3, 5, 3, 7, 5, -1, -1, -1, -1, -1, -1, -1>>,
      <<8, 2, 0, 8, 5, 2, 8, 7, 5, 10, 2, 5, -1, -1, -1, -1>>,
      <<9, 0, 1, 5, 10, 3, 5, 3, 7, 3, 10, 2, -1, -1, -1, -1>>,
      <<9, 8, 2, 9, 2, 1, 8, 7, 2, 10, 2, 5, 7, 5, 2, -1>>,
      <<1, 3, 5, 3, 7, 5, -1, -1, -1, -1, -1, -1, -1, -1, -1, -1>>,
      <<0, 8, 7, 0, 7, 1, 1, 7, 5, -1, -1, -1, -1, -1, -1, -1>>,
      <<9, 0, 3, 9, 3, 5, 5, 3, 7, -1, -1, -1, -1, -1, -1, -1>>,
      <<9, 8, 7, 5, 9, 7, -1, -1, -1, -1, -1, -1, -1, -1, -1, -1>>,
      <<5, 8, 4, 5, 10, 8, 10, 11, 8, -1, -1, -1, -1, -1, -1, -1>>,
      <<5, 0, 4, 5, 11, 0, 5, 10, 11, 11, 3, 0, -1, -1, -1, -1>>,
      <<0, 1, 9, 8, 4, 10, 8, 10, 11, 10, 4, 5, -1, -1, -1, -1>>,
      <<10, 11, 4, 10, 4, 5, 11, 3, 4, 9, 4, 1, 3, 1, 4, -1>>,
      <<2, 5, 1, 2, 8, 5, 2, 11, 8, 4, 5, 8, -1, -1, -1, -1>>,
      <<0, 4, 11, 0, 11, 3, 4, 5, 11, 2, 11, 1, 5, 1, 11, -1>>,
      <<0, 2, 5, 0, 5, 9, 2, 11, 5, 4, 5, 8, 11, 8, 5, -1>>,
      <<9, 4, 5, 2, 11, 3, -1, -1, -1, -1, -1, -1, -1, -1, -1, -1>>,
      <<2, 5, 10, 3, 5, 2, 3, 4, 5, 3, 8, 4, -1, -1, -1, -1>>,
      <<5, 10, 2, 5, 2, 4, 4, 2, 0, -1, -1, -1, -1, -1, -1, -1>>,
      <<3, 10, 2, 3, 5, 10, 3, 8, 5, 4, 5, 8, 0, 1, 9, -1>>,
      <<5, 10, 2, 5, 2, 4, 1, 9, 2, 9, 4, 2, -1, -1, -1, -1>>,
      <<8, 4, 5, 8, 5, 3, 3, 5, 1, -1, -1, -1, -1, -1, -1, -1>>,
      <<0, 4, 5, 1, 0, 5, -1, -1, -1, -1, -1, -1, -1, -1, -1, -1>>,
      <<8, 4, 5, 8, 5, 3, 9, 0, 5, 0, 3, 5, -1, -1, -1, -1>>,
      <<9, 4, 5, -1, -1, -1, -1, -1, -1, -1, -1, -1, -1, -1, -1, -1>>,
      <<4, 11, 7, 4, 9, 11, 9, 10, 11, -1, -1, -1, -1, -1, -1, -1>>,
      <<0, 8, 3, 4, 9, 7, 9, 11, 7, 9, 10, 11, -1, -1, -1, -1>>,
      <<1, 10, 11, 1, 11, 4, 1, 4, 0, 7, 4, 11, -1, -1, -1, -1>>,
      <<3, 1, 4, 3, 4, 8, 1, 10, 4, 7, 4, 11, 10, 11, 4, -1>>,
      <<4, 11, 7, 9, 11, 4, 9, 2, 11, 9, 1, 2, -1, -1, -1, -1>>,
      <<9, 7, 4, 9, 11, 7, 9, 1, 11, 2, 11, 1, 0, 8, 3, -1>>,
      <<11, 7, 4, 11, 4, 2, 2, 4, 0, -1, -1, -1, -1, -1, -1, -1>>,
      <<11, 7, 4, 11, 4, 2, 8, 3, 4, 3, 2, 4, -1, -1, -1, -1>>,
      <<2, 9, 10, 2, 7, 9, 2, 3, 7, 7, 4, 9, -1, -1, -1, -1>>,
      <<9, 10, 7, 9, 7, 4, 10, 2, 7, 8, 7, 0, 2, 0, 7, -1>>,
      <<3, 7, 10, 3, 10, 2, 7, 4, 10, 1, 10, 0, 4, 0, 10, -1>>,
      <<1, 10, 2, 8, 7, 4, -1, -1, -1, -1, -1, -1, -1, -1, -1, -1>>,
      <<4, 9, 1, 4, 1, 7, 7, 1, 3, -1, -1, -1, -1, -1, -1, -1>>,
      <<4, 9, 1, 4, 1, 7, 0, 8, 1, 8, 7, 1, -1, -1, -1, -1>>,
      <<4, 0, 3, 7, 4, 3, -1, -1, -1, -1, -1, -1, -1, -1, -1, -1>>,
      <<4, 8, 7, -1, -1, -1, -1, -1, -1, -1, -1, -1, -1, -1, -1, -1>>,
      <<9, 10, 8, 10, 11, 8, -1, -1, -1, -1, -1, -1, -1, -1, -1, -1>>,
      <<3, 0, 9, 3, 9, 11, 11, 9, 10, -1, -1, -1, -1, -1, -1, -1>>,
      <<0, 1, 10, 0, 10, 8, 8, 10, 11, -1, -1, -1, -1, -1, -1, -1>>,
      <<3, 1, 10, 11, 3, 10, -1, -1, -1, -1, -1, -1, -1, -1, -1, -1>>,
      <<1, 2, 11, 1, 11, 9, 9, 11, 8, -1, -1, -1, -1, -1, -1, -1>>,
      <<3, 0, 9, 3, 9, 11, 1, 2, 9, 2, 11, 9, -1, -1, -1, -1>>,
      <<0, 2, 11, 8, 0, 11, -1, -1, -1, -1, -1, -1, -1, -1, -1, -1>>,
      <<3, 2, 11, -1, -1, -1, -1, -1, -1, -1, -1, -1, -1, -1, -1, -1>>,
      <<2, 3, 8, 2, 8, 10, 10, 8, 9, -1, -1, -1, -1, -1, -1, -1>>,
      <<9, 10, 2, 0, 9, 2, -1, -1, -1, -1, -1, -1, -1, -1, -1, -1>>,
      <<2, 3, 8, 2, 8, 10, 0, 1, 8, 1, 10, 8, -1, -1, -1, -1>>,
      <<1, 10, 2, -1, -1, -1, -1, -1, -1, -1, -1, -1, -1, -1, -1, -1>>,
      <<1, 3, 8, 9, 1, 8, -1, -1, -1, -1, -1, -1, -1, -1, -1, -1>>,
      <<0, 9, 1, -1, -1, -1, -1, -1, -1, -1, -1, -1, -1, -1, -1, -1>>,
      <<0, 3, 8, -1, -1, -1, -1, -1, -1, -1, -1, -1, -1, -1, -1, -1>>,
      <<-1, -1, -1, -1, -1, -1, -1, -1, -1, -1, -1, -1, -1, -1, -1, -1>>>>

\* resolution: u32.  A u32 is modelled by its 32-bit pattern read as two's
\* complement, so u32::MAX is -1 and resolution + 1 wraps to 0.
U32_MAX == 0 - 1

\* ImplicitSurface closures: (f64, f64, f64) -> f64.  "sphere" is
\* x^2 + y^2 + z^2 - r^2 with the value args.bad at the origin when args.bad
\* is not 0; "plane" is z - r.
FieldF(a, p) ==
    IF ~ VFinite(p) THEN NaN
    ELSE IF a.f = "plane" THEN p[3] - a.r
    ELSE IF p = ZERO /\ a.bad # 0 THEN a.bad
    ELSE p[1] * p[1] + p[2] * p[2] + p[3] * p[3] - a.r * a.r

\* (func(p + eps e_x) - func(p - eps e_x), ...) for eps = 1e-6, up to the
\* positive factor 4 * eps (sphere) or 2 * eps (plane)
FieldGrad(a, p) ==
    IF ~ VFinite(p) THEN <<NaN, NaN, NaN>>
    ELSE IF a.f = "plane" THEN K ELSE p

\* lines 187-197
calc_gradient_normal(a, p) == unit(FieldGrad(a, p), 0)

\* lines 40-44 and 85-88: world position of grid point (i, j, k)
GridPos(a, i, j, k) ==
    <<GridCoord(a.x_range[1], a.x_range[2], a.resolution, i),
      GridCoord(a.y_range[1], a.y_range[2], a.resolution, j),
      GridCoord(a.z_range[1], a.z_range[2], a.resolution, k)>>

\* (mutation: mu = v1 / (v2 - v1), the sign of the numerator lost)
vertex_interp_signed(p1, v1, p2, v2) ==
    IF is_finite(v1) /\ is_finite(v2)
    THEN IF v2 = v1 THEN p1
         ELSE [c \in 1..3 |-> p1[c] + ((p2[c] - p1[c]) * v1) \div (v2 - v1)]
    ELSE IF is_finite(v1) /\ v2 # NaN THEN p1
    ELSE <<NaN, NaN, NaN>>
\* lines 177-182; |v2 - v1| < 1e-9 is v2 = v1 in fixed point.  With a
\* non-finite value mu is 0 (v1 finite, v2 infinite) or NaN.
vertex_interp(p1, v1, p2, v2) ==
    IF is_finite(v1) /\ is_finite(v2)
    THEN IF v2 = v1 THEN p1
         ELSE [c \in 1..3 |-> p1[c] + ((p2[c] - p1[c]) * (0 - v1)) \div (v2 - v1)]
    ELSE IF is_finite(v1) /\ v2 # NaN THEN p1
    ELSE <<NaN, NaN, NaN>>

corner_offsets ==
    <<<<0, 0, 0>>, <<1, 0, 0>>, <<1, 0, 1>>, <<0, 0, 1>>,
      <<0, 1, 0>>, <<1, 1, 0>>, <<1, 1, 1>>, <<0, 1, 1>>>>

\* lines 102-113: the corner pair (0-based) of edge e = 0..11
EdgeCorners ==
    <<<<0, 1>>, <<1, 2>>, <<2, 3>>, <<3, 0>>, <<4, 5>>, <<5, 6>>, <<6, 7>>, <<7, 4>>,
      <<0, 4>>, <<1, 5>>, <<2, 6>>, <<3, 7>>>>

\* (mutation: the sign test is val > 0.0)
cube_index_positive(vals) ==
    LET bit(n) == IF vals[n] # NaN /\ vals[n] > 0 THEN 2 ^ (n - 1) ELSE 0
    IN  bit(1) + bit(2) + bit(3) + bit(4) + bit(5) + bit(6) + bit(7) + bit(8)
\* lines 72-93: bit n is set iff val < 0.0 at corner n (false for NaN)
cube_index(vals) ==
    LET bit(n) == IF vals[n] # NaN /\ vals[n] < 0 THEN 2 ^ (n - 1) ELSE 0
    IN  bit(1) + bit(2) + bit(3) + bit(4) + bit(5) + bit(6) + bit(7) + bit(8)

\* lines 64 and 79: index into the flat scalar array of corner n of cell (i, j, k)
global_idx(a, i, j, k, n) ==
    LET res_p1 == a.resolution + 1
        o == corner_offsets[n]
    IN  k * res_p1 * res_p1 + j * res_p1 + i + o[3] * res_p1 * res_p1 + o[2] * res_p1 + o[1]

\* the flat scalar array is kept as its chunks of res_p1 * res_p1 entries
\* (the z-slices of par_chunks_mut, line 39)

\* (mutation: the corners are read in the order of Bourke's figure, corner
\* 2 at (1, 1, 0) and corner 4 at (0, 0, 1))
corner_vals_bourke(a, values, i, j, k) ==
    LET res_p1 == a.resolution + 1
        base == j * res_p1 + i + 1
        lo == values[k + 1]
        hi == values[k + 2]
    IN  <<lo[base], lo[base + 1], lo[base + res_p1 + 1], lo[base + res_p1],
          hi[base], hi[base + 1], hi[base + res_p1 + 1], hi[base + res_p1]>>
\* corner_vals[n] = values[global_idx] for corner n = 0 .. 7 (lines 76-82):
\* the entry of slice k + dk at offset (j + dj) * res_p1 + i + di
corner_vals(a, values, i, j, k) ==
    LET res_p1 == a.resolution + 1
        base == j * res_p1 + i + 1
        lo == values[k + 1]
        hi == values[k + 2]
    IN  <<lo[base], lo[base + 1], hi[base + 1], hi[base],
          lo[base + res_p1], lo[base + res_p1 + 1],
          hi[base + res_p1 + 1], hi[base + res_p1]>>

\* lines 60-149: the vertices one cell pushes, three per triangle
MarchCell(a, values, i, j, k) ==
    LET vals == corner_vals(a, values, i, j, k)
        pos == [n \in 1..8 |-> GridPos(a, i + corner_offsets[n][1], j + corner_offsets[n][2],
                                       k + corner_offsets[n][3])]
        ci == cube_index(vals)
        edges == EDGE_TABLE[ci + 1]
        vert_list ==
            [e \in 1..12 |->
                IF (edges \div 2 ^ (e - 1)) % 2 = 1
                THEN vertex_interp(pos[EdgeCorners[e][1] + 1], vals[EdgeCorners[e][1] + 1],
                                   pos[EdgeCorners[e][2] + 1], vals[EdgeCorners[e][2] + 1])
                ELSE ZERO]
        row == TRI_TABLE[ci + 1]
        \* the loop over t = 0, 3, .., 15 breaks at the first -1
        ntri == Cardinality({t \in {0, 3, 6, 9, 12, 15} :
                                \A s \in {0, 3, 6, 9, 12, 15} : s <= t => row[s + 1] # 0 - 1})
    IN  IF edges = 0 THEN <<>>
        ELSE [m \in 1..(3 * ntri) |->
                 [position |-> vert_list[row[m] + 1],
                  normal |-> calc_gradient_normal(a, vert_list[row[m] + 1])]]

RECURSIVE MarchRow(_, _, _, _, _)
MarchRow(a, values, i, j, k) ==
    IF i >= a.resolution THEN <<>>
    ELSE MarchCell(a, values, i, j, k) \o MarchRow(a, values, i + 1, j, k)

RECURSIVE MarchRows(_, _, _, _)
MarchRows(a, values, j, k) ==
    IF j >= a.resolution THEN <<>>
    ELSE MarchRow(a, values, 0, j, k) \o MarchRows(a, values, j + 1, k)

\* (mutation: index_counter grows by one per triangle)
index_counter_by_one(m) == m
\* lines 55 and 150: index_counter when triangle number m is pushed
index_counter(m) == 3 * m

\* lines 53-153: what the worker of z-layer k returns; triangle number m
\* pushes the indices index_counter, index_counter + 1, index_counter + 2
MarchLayer(a, values, k) ==
    LET local_vertices == MarchRows(a, values, 0, k)
    IN  [vertices |-> local_vertices,
         indices |-> [n \in 1..Len(local_vertices) |->
                         index_counter((n - 1) \div 3) + ((n - 1) % 3)]]

\* (mutation: a finished task may be handed out again)
BatchesRepeat(a, tasks) == {{k} : k \in tasks}
\* the tasks of a parallel phase a worker may run in its next step: any
\* unfinished run of a.grain consecutive tasks (rayon splits the index range
\* into runs and the workers take them in any order), or, when the pool has a
\* single thread, the next a.grain unfinished tasks in index order (nothing
\* can observe the steps between)
Batches(a, tasks) ==
    LET left == tasks \ done
    IN  IF a.threads # 1
        THEN {{k \in left : k \div a.grain = q} : q \in {k \div a.grain : k \in left}}
        ELSE IF left = {} THEN {}
        ELSE {{k \in left : k < a.grain + CHOOSE m \in left : \A n \in left : m <= n}}

\* lines 27-36.  resolution + 1 overflows for u32::MAX: a build with overflow
\* checks panics at line 27; without them res_p1 is 0 and par_chunks_mut(0)
\* panics at line 39 (chunk size must not be zero).
MCCall ==
    /\ solver = "mc" /\ pc = "call"
    /\ IF args.resolution = U32_MAX
       THEN /\ panicked' = TRUE /\ pc' = "panic"
            /\ \E build \in {"overflow-checks", "wrapping"} : path' = <<build>>
            /\ UNCHANGED parts
       ELSE /\ path' = [k \in 1..(args.resolution + 1) |->
                           [n \in 1..((args.resolution + 1) * (args.resolution + 1)) |-> 0]]
            /\ parts' = [k \in 1..args.resolution |-> [vertices |-> <<>>, indices |-> <<>>]]
            /\ pc' = "field"
            /\ UNCHANGED panicked
    /\ UNCHANGED <<host, solver, args, idx, vertices, indices, evals, done>>

\* lines 39-49: a worker fills the z-slices B of the scalar array; the
\* for_each returns when every slice is filled
MCPlane ==
    /\ solver = "mc" /\ pc = "field"
    /\ \E B \in Batches(args, 0..args.resolution) :
          LET res_p1 == args.resolution + 1
          IN  /\ path' = [k \in 1..Len(path) |->
                             IF k - 1 \in B
                             THEN [n \in 1..(res_p1 * res_p1) |->
                                      FieldF(args, GridPos(args, (n - 1) % res_p1,
                                                           (n - 1) \div res_p1, k - 1))]
                             ELSE path[k]]
              /\ evals' = evals + res_p1 * res_p1 * Cardinality(B)
              /\ IF done \cup B = 0..args.resolution
                 THEN done' = {} /\ pc' = "march"
                 ELSE done' = done \cup B /\ pc' = pc
    /\ UNCHANGED <<host, solver, args, idx, vertices, indices, parts, panicked>>

\* lines 53-153: a worker marches the z-layers B; values[global_idx] panics
\* when global_idx is not below values.len() (global_idx grows with i and j,
\* so the first and the last cell of a row and of a layer decide)
MCLayer ==
    /\ solver = "mc" /\ pc = "march"
    /\ \E B \in Batches(args, 0..(args.resolution - 1)) :
          IF \E k \in B, i, j \in {0, args.resolution - 1}, n \in 1..8 :
                 global_idx(args, i, j, k, n) >= Len(path) * Len(path[1])
          THEN /\ panicked' = TRUE /\ pc' = "panic"
               /\ UNCHANGED <<parts, done>>
          ELSE /\ parts' = [k \in 1..Len(parts) |->
                              IF k - 1 \in B THEN MarchLayer(args, path, k - 1) ELSE parts[k]]
               /\ done' = done \cup B
               /\ UNCHANGED <<pc, panicked>>
    /\ UNCHANGED <<host, solver, args, path, idx, vertices, indices, evals>>

\* line 153 to 158: collect() returns the parts in layer order
MCCollect ==
    /\ solver = "mc" /\ pc = "march"
    /\ done = 0..(args.resolution - 1)
    /\ pc' = "merge" /\ done' = {}
    /\ UNCHANGED <<host, solver, args, path, idx, vertices, indices, evals, parts, panicked>>

\* (mutation: the indices are appended as they are)
Unrebased(idxs, base_index) == idxs
\* lines 162-164
Rebased(idxs, base_index) == [n \in 1..Len(idxs) |-> idxs[n] + base_index]

\* lines 160-169: the merge loop from part n on
RECURSIVE MergeParts(_, _, _)
MergeParts(ps, n, acc) ==
    IF n > Len(ps) THEN acc
    ELSE MergeParts(ps, n + 1,
             [vertices |-> acc.vertices \o ps[n].vertices,
              indices |-> acc.indices \o Rebased(ps[n].indices, acc.base_index),
              base_index |-> acc.base_index + Len(ps[n].vertices)])

\* lines 156-171: the serial merge (idx is base_index)
MCMerge ==
    /\ solver = "mc" /\ pc = "merge"
    /\ LET m == MergeParts(parts, 1, [vertices |-> <<>>, indices |-> <<>>, base_index |-> 0])
       IN  vertices' = m.vertices /\ indices' = m.indices /\ idx' = m.base_index
    /\ parts' = [k \in 1..Len(parts) |-> [vertices |-> <<>>, indices |-> <<>>]]
    /\ pc' = "done"
    /\ UNCHANGED <<host, solver, args, path, evals, panicked, done>>

MaxResolution == 2      \* largest resolution of a call (but for u32::MAX)

FieldRanges == {<<0 - (3 * Scale) \div 2, (3 * Scale) \div 2>>, <<0, 0>>,
                <<(3 * Scale) \div 2, 0 - (3 * Scale) \div 2>>}

MCArgs ==
    [f : {"sphere"}, r : {Scale, 2 * Scale}, bad : {0, NaN, NInf, PInf},
     x_range : FieldRanges, y_range : {<<0 - (3 * Scale) \div 2, (3 * Scale) \div 2>>},
     z_range : FieldRanges,
     resolution : (0..MaxResolution) \cup {U32_MAX}, threads : {1, 2}, grain : {1}]
    \cup
    [f : {"plane"}, r : {0, Scale \div 2}, bad : {0},
     x_range : FieldRanges, y_range : {<<0 - (3 * Scale) \div 2, (3 * Scale) \div 2>>},
     z_range : {<<0 - (3 * Scale) \div 2, (3 * Scale) \div 2>>},
     resolution : (0..MaxResolution) \cup {U32_MAX}, threads : {1, 2}, grain : {1}]

InitMC == solver = "mc" /\ args \in MCArgs /\ InitBuffers

NextMC == MCCall \/ MCPlane \/ MCLayer \/ MCCollect \/ MCMerge

SpecMC == InitMC /\ [][NextMC]_vars

\* the sphere of radius 1 over [-1.5, 1.5]^3 at resolution 40, in units of
\* 1 / (4 * Scale) (the grid step is 30 units), on a pool of one thread,
\* next to the calls of InitMC
InitSphere ==
    /\ solver = "mc"
    /\ args \in MCArgs \cup {[f |-> "sphere", r |-> 4 * Scale, bad |-> 0,
               x_range |-> <<0 - 6 * Scale, 6 * Scale>>,
               y_range |-> <<0 - 6 * Scale, 6 * Scale>>,
               z_range |-> <<0 - 6 * Scale, 6 * Scale>>,
               resolution |-> 40, threads |-> 1, grain |-> 41]}
    /\ InitBuffers

SpecSphere == InitSphere /\ [][NextMC]_vars

(***************************************************************************)
(* ImplicitSolver::solve (2D marching squares)                             *)
(***************************************************************************)
\* Implicit closures: (f64, f64) -> f64.  "circle" is x^2 + y^2 - r^2;
\* "recip" is 1 / x - y (+inf on the line x = 0).
ImplicitF(a, x, y) ==
    CASE a.f = "circle" -> x * x + y * y - a.r * a.r
      [] a.f = "well"   -> \* y - 1 / x^2, which is -inf on the line x = 0
                           FSub(y, DivCount(Scale * Scale * Scale, x * x))
      [] OTHER          -> FSub(DivCount(a.r * a.r, x), y)

\* lines 15-17
grid_w(a) == Min(Max(a.screen_w \div 2, 100), 700)
grid_h(a) == Min(Max(a.screen_h \div 2, 100), 700)

\* v0 * v1 <= 0.0 (lines 31 and 35): false when the product is NaN
SignChange(v0, v1) ==
    /\ v0 # NaN /\ v1 # NaN
    /\ ~ (v0 = 0 /\ ~ is_finite(v1)) /\ ~ (v1 = 0 /\ ~ is_finite(v0))
    /\ (v0 = 0 \/ v1 = 0 \/ (v0 < 0) # (v1 < 0))

\* (mutation: the interpolation parameter is not clamped and the division is
\* by v1 + v0)
linear_interp_sum(v0, v1) ==
    IF ~ is_finite(v0) \/ v1 = NaN THEN <<NaN, 1>>
    ELSE IF ~ is_finite(v1) THEN <<0, 1>>
    ELSE IF v1 + v0 = 0 THEN <<1, 2>>
    ELSE <<0 - v0, v1 + v0>>
\* lines 44-48, as the fraction <<numerator, denominator>> with a positive
\* denominator (<<NaN, 1>> is NaN); |diff| < 1e-15 is diff = 0 in fixed point; inf / inf is NaN
\* and NaN.clamp(0.0, 1.0) is NaN
linear_interp(v0, v1) ==
    IF ~ is_finite(v0) \/ v1 = NaN THEN <<NaN, 1>>
    ELSE IF ~ is_finite(v1) THEN <<0, 1>>
    ELSE IF v1 - v0 = 0 THEN <<1, 2>>
    ELSE LET n == IF v1 - v0 > 0 THEN 0 - v0 ELSE v0
             d == Abs(v1 - v0)
         IN  IF n < 0 THEN <<0, 1>> ELSE IF n > d THEN <<1, 1>> ELSE <<n, d>>

\* x + t * x_step
Lerp(x, t, step) == IF t[1] = NaN THEN NaN ELSE x + (t[1] * step) \div t[2]

\* lines 26-38: the points cell (i, j) pushes
ImplicitCell(a, i, j) ==
    LET x == GridCoord(a.x_range[1], a.x_range[2], grid_w(a), i)
        y == GridCoord(a.y_range[1], a.y_range[2], grid_h(a), j)
        x_step == GridCoord(a.x_range[1], a.x_range[2], grid_w(a), i + 1) - x
        y_step == GridCoord(a.y_range[1], a.y_range[2], grid_h(a), j + 1) - y
        v00 == ImplicitF(a, x, y)
        v10 == ImplicitF(a, x + x_step, y)
        v01 == ImplicitF(a, x, y + y_step)
    IN  (IF SignChange(v00, v10) THEN <<<<Lerp(x, linear_interp(v00, v10), x_step), y>>>> ELSE <<>>)
        \o (IF SignChange(v00, v01) THEN <<<<x, Lerp(y, linear_interp(v00, v01), y_step)>>>> ELSE <<>>)

\* lines 23-40: the local buffer of column i, rows lo..hi in order
RECURSIVE ImplicitRows(_, _, _, _)
ImplicitRows(a, i, lo, hi) ==
    IF lo > hi THEN <<>>
    ELSE IF lo = hi THEN ImplicitCell(a, i, lo)
    ELSE ImplicitRows(a, i, lo, (lo + hi) \div 2) \o ImplicitRows(a, i, (lo + hi) \div 2 + 1, hi)

\* (mutation: the workers share one buffer and the last one to finish
\* overwrites it)
FlattenLast(bufs, lo, hi) == IF lo > hi THEN <<>> ELSE bufs[hi]
\* flat_map(..).collect(): the local buffers lo..hi in column order
RECURSIVE Flatten(_, _, _)
Flatten(bufs, lo, hi) ==
    IF lo > hi THEN <<>>
    ELSE IF lo = hi THEN bufs[lo]
    ELSE Flatten(bufs, lo, (lo + hi) \div 2) \o Flatten(bufs, (lo + hi) \div 2 + 1, hi)

\* lines 15-22
ImplicitCall ==
    /\ solver = "implicit" /\ pc = "call"
    /\ parts' = [i \in 1..grid_w(args) |-> <<>>]
    /\ pc' = "columns"
    /\ UNCHANGED <<host, solver, args, path, idx, vertices, indices, evals, panicked, done>>

\* lines 22-41: a worker scans the columns B, each into its own local buffer
ImplicitColumn ==
    /\ solver = "implicit" /\ pc = "columns"
    /\ \E B \in Batches(args, 0..(grid_w(args) - 1)) :
          /\ parts' = [i \in 1..Len(parts) |->
                         IF i - 1 \in B THEN ImplicitRows(args, i - 1, 0, grid_h(args) - 1)
                         ELSE parts[i]]
          /\ done' = done \cup B
          /\ evals' = evals + 3 * grid_h(args) * Cardinality(B)
    /\ UNCHANGED <<host, solver, pc, args, path, idx, vertices, indices, panicked>>

\* line 41
ImplicitCollect ==
    /\ solver = "implicit" /\ pc = "columns"
    /\ done = 0..(grid_w(args) - 1)
    /\ vertices' = Flatten(parts, 1, Len(parts))
    /\ pc' = "done" /\ done' = {}
    /\ UNCHANGED <<host, solver, args, path, idx, indices, evals, parts, panicked>>

\* the circle of radius 1 over [-1.5, 1.5]^2 in units of 1 / (28 * Scale)
\* (the grid step is a whole number of units for 100, 400 and 700 columns and
\* for 100 and 150 rows), degenerate ranges and screens, a pool of two
\* threads taking the 100 columns in runs of 25, and two functions with a
\* pole on the grid line x = 0 over [-50, 50]^2
ImplicitArgs ==
    [f : {"circle"}, r : {28 * Scale},
     x_range : {<<0 - 42 * Scale, 42 * Scale>>}, y_range : {<<0 - 42 * Scale, 42 * Scale>>},
     screen_w : {0, 800, 1500}, screen_h : {200}, threads : {1}, grain : {10, 70}]
    \cup
    [f : {"circle"}, r : {28 * Scale},
     x_range : {<<0 - 42 * Scale, 42 * Scale>>}, y_range : {<<0 - 42 * Scale, 42 * Scale>>},
     screen_w : {200}, screen_h : {0, 300}, threads : {1}, grain : {10, 70}]
    \cup
    [f : {"circle", "recip"}, r : {28 * Scale},
     x_range : {<<0, 0>>, <<42 * Scale, 0 - 42 * Scale>>},
     y_range : {<<0 - 42 * Scale, 42 * Scale>>},
     screen_w : {0}, screen_h : {200}, threads : {1}, grain : {10, 70}]
    \cup
    [f : {"circle"}, r : {28 * Scale},
     x_range : {<<0 - 42 * Scale, 42 * Scale>>}, y_range : {<<0 - 42 * Scale, 42 * Scale>>},
     screen_w : {0}, screen_h : {200}, threads : {2}, grain : {25}]
    \cup
    [f : {"well", "recip"}, r : {28 * Scale},
     x_range : {<<0 - 50 * Scale, 50 * Scale>>}, y_range : {<<0 - 50 * Scale, 50 * Scale>>},
     screen_w : {0}, screen_h : {200}, threads : {1}, grain : {70}]

InitImplicit == solver = "implicit" /\ args \in ImplicitArgs /\ InitBuffers

NextImplicit == ImplicitCall \/ ImplicitColumn \/ ImplicitCollect

SpecImplicit == InitImplicit /\ [][NextImplicit]_vars

(***************************************************************************)
(* Claims about the 2D ribbon solvers (checked under SpecRibbon).          *)
(***************************************************************************)

\* C2: ExplicitSolver::solve returns an empty vertex list, without evaluating
\* f, whenever x_max - x_min <= 0 or screen_w = 0; ParametricSolver::solve
\* returns an empty vertex list, without evaluating f, whenever
\* t_max - t_min <= 0.  (A degenerate call goes from its entry straight to its
\* return, and at no point has it evaluated f or pushed a vertex.)
C2_DegenerateReturnsEmptyUnevaluated ==
    /\ (solver = "explicit" /\ (args.x_max - args.x_min <= 0 \/ args.screen_w = 0))
         => (evals = 0 /\ vertices = <<>> /\ pc \in {"call", "done"})
    /\ (solver = "parametric" /\ args.t_max - args.t_min <= 0)
         => (evals = 0 /\ vertices = <<>> /\ pc \in {"call", "done"})

\* C2 witness: an explicit call with a proper x-range and screen_w = 0 has returned
C2_Witness ==
    /\ solver = "explicit" /\ pc = "done"
    /\ args.x_max - args.x_min > 0 /\ args.screen_w = 0
    /\ vertices = <<>> /\ evals = 0

\* the samples p0, p1 lie on the two sides of the pole of the "pole" function
StraddlesPole(p0, p1) == p0[1] < PoleX /\ PoleX < p1[1]

\* C6 (as claimed): ExplicitSolver::solve never emits a quad whose y-extent
\* (the |dy| of its two samples) exceeds jump_threshold, and when two
\* consecutive samples straddle a pole of f the segment between them is
\* omitted, so the ribbon has a gap at the pole.
C6_PoleSegmentOmitted ==
    [][(solver = "explicit" /\ pc = "mesh" /\ idx < Len(path) - 1 /\ args.screen_h > 0)
         => LET p0 == path[idx + 1]
                p1 == path[idx + 2]
            IN  /\ (vertices' # vertices /\ is_finite(p0[2]) /\ is_finite(p1[2]))
                     => Abs(p1[2] - p0[2]) <= view_height_world(args.zoom) * 10
                /\ (args.f = "pole" /\ StraddlesPole(p0, p1)) => vertices' = vertices]_vars

(***************************************************************************)
(* Claims about the parametric surface mesher (checked under SpecSurface). *)
(***************************************************************************)
\* the triangles of an index buffer, as a set of index triples
Triangles(ix) == {<<ix[3 * k + 1], ix[3 * k + 2], ix[3 * k + 3]>> : k \in 0..(Len(ix) \div 3 - 1)}

GridCells(a) == (0..(a.u_segments - 1)) \X (0..(a.v_segments - 1))

TriADB(a, cell) ==
    LET q == CellCorners(cell[1], cell[2], a.v_segments + 1) IN <<q.a, q.d, q.b>>
TriBDC(a, cell) ==
    LET q == CellCorners(cell[1], cell[2], a.v_segments + 1) IN <<q.b, q.d, q.c>>

\* the grid samples at which the surface function is non-finite
BadSamples(a) ==
    {g \in (0..a.u_segments) \X (0..a.v_segments) :
        ~ VFinite(SurfaceF(a, GridCoord(a.u_min, a.u_max, a.u_segments, g[1]),
                              GridCoord(a.v_min, a.v_max, a.v_segments, g[2])))}

\* the triangles the claim lists for grid vertex (i, j), where the cells exist
IncidentTriangles(a, g) ==
    LET i == g[1]
        j == g[2]
    IN  {TriADB(a, c) : c \in {<<i, j>>, <<i, j - 1>>, <<i - 1, j>>} \cap GridCells(a)}
          \cup {TriBDC(a, c) : c \in {<<i, j - 1>>, <<i - 1, j>>, <<i - 1, j - 1>>} \cap GridCells(a)}

\* C5: if the surface function is non-finite at exactly one grid sample (i, j)
\* and no grid edge exceeds the jump threshold, the returned index buffer lacks
\* exactly the triangles with vertex (i, j) as a corner and holds every other
\* triangle of the grid (once each).
C5_NaNContainment ==
    (solver = "surface" /\ pc = "done" /\ args.f = "hole" /\ Cardinality(BadSamples(args)) = 1)
      => LET g == CHOOSE g \in BadSamples(args) : TRUE
             all == {TriADB(args, c) : c \in GridCells(args)}
                      \cup {TriBDC(args, c) : c \in GridCells(args)}
         IN  /\ Triangles(indices) = all \ IncidentTriangles(args, g)
             /\ Len(indices) = 3 * Cardinality(all \ IncidentTriangles(args, g))

\* C5 witness: a 3 x 3 grid whose interior sample (1, 1) is non-finite has been
\* meshed: 6 of its 18 triangles are missing
C5_Witness ==
    /\ solver = "surface" /\ pc = "done" /\ args.f = "hole"
    /\ args.u_segments = 3 /\ args.v_segments = 3
    /\ BadSamples(args) = {<<1, 1>>}
    /\ Len(indices) = 36

\* the three vertices are finite and the three squared edge lengths are
\* below JUMP_THRESHOLD_SQ
FiniteAndShort(p1, p2, p3) ==
    /\ VFinite(p1) /\ VFinite(p2) /\ VFinite(p3)
    /\ d_sq(p1, p2) < JUMP_THRESHOLD_SQ * Scale * Scale
    /\ d_sq(p2, p3) < JUMP_THRESHOLD_SQ * Scale * Scale
    /\ d_sq(p3, p1) < JUMP_THRESHOLD_SQ * Scale * Scale

\* C24: the returned index buffer holds triangle a-d-b (resp. b-d-c) of a
\* cell if and only if its three vertices are finite and its three squared
\* edge lengths are below JUMP_THRESHOLD_SQ, and it holds nothing else.
C24_TriangleRule ==
    (solver = "surface" /\ pc = "done") =>
        /\ \A c \in GridCells(args) :
              LET q == CellCorners(c[1], c[2], args.v_segments + 1)
                  pa == vertices[q.a + 1].position
                  pb == vertices[q.b + 1].position
                  pc_ == vertices[q.c + 1].position
                  pd == vertices[q.d + 1].position
              IN  /\ TriADB(args, c) \in Triangles(indices) <=> FiniteAndShort(pa, pd, pb)
                  /\ TriBDC(args, c) \in Triangles(indices) <=> FiniteAndShort(pb, pd, pc_)
        /\ Triangles(indices) \subseteq
              {TriADB(args, c) : c \in GridCells(args)} \cup {TriBDC(args, c) : c \in GridCells(args)}

\* C25: the vertex of a sample with a finite position has the normal
\* (0, 0, 1) if the offset sample f(u + eps, v) or f(u, v + eps) has a
\* non-finite component, and unit((f(u + eps, v) - f(u, v)) x
\* (f(u, v + eps) - f(u, v))) otherwise.
C25_DefaultNormal ==
    solver = "surface" =>
        \A n \in 0..(Len(vertices) - 1) :
            LET u == GridCoord(args.u_min, args.u_max, args.u_segments,
                               n \div (args.v_segments + 1))
                v == GridCoord(args.v_min, args.v_max, args.v_segments,
                               n % (args.v_segments + 1))
                du == SurfaceDu(args, u, v)
                dv == SurfaceDv(args, u, v)
            IN  VFinite(SurfaceF(args, u, v)) =>
                    vertices[n + 1].normal =
                        IF VFinite(du) /\ VFinite(dv) THEN unit(cross(du, dv), 0) ELSE K

(***************************************************************************)
(* Claims about the tube mesher (checked under SpecTube).                  *)
(***************************************************************************)

\* C7 (as claimed): in every output of ParametricCurveSolver::solve, for every
\* ring i and every angular index j, the vertex normal is perpendicular to
\* the tangent estimated at ring i: |dot(normal_j, tangent_i)| <= 1e-6.
\* (An IEEE comparison with NaN is false.)
C7_NormalPerpendicular ==
    solver = "tube" =>
        \A k \in 1..Len(vertices) :
            LET d == dot(vertices[k].normal,
                         TubeTangent(args, (k - 1) \div (args.tube_segments + 1)))
            IN  is_finite(d) /\ Abs(d) <= (Scale * Scale) \div 1000000

(***************************************************************************)
(* Every solver (the sphere of SpecSphere apart).                          *)
(***************************************************************************)
Init == InitRibbon \/ InitSurface \/ InitTube \/ InitMC \/ InitImplicit

Next == NextRibbon \/ NextSurface \/ NextTube \/ NextMC \/ NextImplicit

Spec == Init /\ [][Next]_vars

(***************************************************************************)
(* Sequences of calls.  The solver structs have no fields (explicit.rs      *)
(* line 11, implicit.rs line 5, implicit_surface.rs line 11) and solve      *)
(* takes &self: what a call works on is created by the call.                *)
(***************************************************************************)
MaxCalls == 2       \* calls in one behaviour

\* (mutation: the solver keeps the buffer in a field and does not clear it)
KeptVec(old) == old
\* let mut vertices = Vec::with_capacity(..): the buffer a call returns is
\* created empty by the call (explicit.rs line 58, and alike in every solver)
NewVec(old) == <<>>

\* the calls of a sequence: one or two per solver
SolveCalls ==
    {[solver |-> "explicit", args |-> a] :
        a \in {b \in ExplicitArgs : b.f = "pole" /\ b.x_min = 0 /\ b.x_max = 6 * Scale
                                      /\ b.zoom = Scale \div 5 /\ b.screen_w = 80
                                      /\ b.screen_h = 600}}
    \cup {[solver |-> "parametric", args |-> a] :
        a \in {b \in ParametricArgs : b.f = "hyperbola" /\ b.t_min = 0 /\ b.t_max = 6 * Scale
                                        /\ b.zoom = Scale /\ b.screen_h = 600}}
    \cup {[solver |-> "implicit", args |-> a] :
        a \in {b \in ImplicitArgs : b.f = "circle" /\ b.threads = 1 /\ b.grain = 70
                                      /\ b.screen_w = 0 /\ b.x_range[1] < b.x_range[2]}}
    \cup {[solver |-> "mc", args |-> a] :
        a \in {b \in MCArgs : b.f = "sphere" /\ b.r = Scale /\ b.bad = 0 /\ b.resolution = 2
                                /\ b.x_range[1] < b.x_range[2] /\ b.z_range[1] < b.z_range[2]}}
    \cup {[solver |-> "surface", args |-> a] :
        a \in {b \in SurfaceArgs : b.f = "hole" /\ b.hole = <<Scale, Scale>> /\ b.badc = 1
                                     /\ b.bad = NaN /\ b.u_segments = 3 /\ b.v_segments = 3}}
    \cup {[solver |-> "tube", args |-> a] :
        a \in {b \in TubeArgs : b.f = "rise" /\ b.t_min = 0 /\ b.t_max = 3 * Scale
                                  /\ b.tube_segments = 4 /\ b.path_segments = 2}}
    \cup {[solver |-> "axes", args |-> [length |-> Scale]],
          [solver |-> "plane", args |-> [size |-> 20 * Scale]]}

\* the caller takes the returned buffers and makes another call
NextCall ==
    /\ pc = "done" /\ Len(returned) + 1 < MaxCalls
    /\ returned' = Append(returned, [solver |-> solver, args |-> args,
                                     vertices |-> vertices, indices |-> indices])
    /\ \E c \in SolveCalls : solver' = c.solver /\ args' = c.args
    /\ pc' = "call" /\ idx' = 0 /\ evals' = 0 /\ panicked' = FALSE /\ done' = {}
    /\ path' = <<>> /\ parts' = <<>>
    /\ vertices' = NewVec(vertices) /\ indices' = NewVec(indices)
    /\ UNCHANGED <<plotter, env>>

InitCalls ==
    /\ \E c \in SolveCalls : solver = c.solver /\ args = c.args
    /\ InitBuffers

NextCalls == Next \/ NextCall

SpecCalls == InitCalls /\ [][NextCalls]_vars

(***************************************************************************)
(* D2Plotter (graph/d2/main.rs): the caller of the 2D solvers.  Pixels are *)
(* whole numbers; centre, zoom and world lengths are in units of 1/Scale.  *)
(* A handler is one step.                                                  *)
(***************************************************************************)
MaxObjects == 2     \* objects added to the plotter
MaxEvents == 5      \* add_object calls and window events in one behaviour

\* a / b for a and b in the same unit, in units of 1/Scale (IEEE division)
FDiv(a, b) ==
    IF a = NaN \/ b = NaN THEN NaN
    ELSE IF is_finite(a) /\ is_finite(b)
         THEN IF b # 0 THEN (a * Scale) \div b
              ELSE IF a = 0 THEN NaN ELSE IF a > 0 THEN PInf ELSE NInf
    ELSE IF ~ is_finite(a) /\ ~ is_finite(b) THEN NaN
    ELSE IF is_finite(a) THEN 0
    ELSE IF (a > 0) = (b >= 0) THEN PInf ELSE NInf

\* a * b for a and b in units of 1/Scale
FxMul(a, b) == IF is_finite(a) /\ is_finite(b) THEN (a * b) \div Scale ELSE FMul(a, b)

\* the objects a caller adds (GeoObj::new_implicit, new_parametric,
\* new_explicit, and an object of type Geometry)
GeoObjs ==
    {[geo_type |-> "Implicit", f |-> "circle", t_range |-> <<0, 0>>, width |-> 6],
     [geo_type |-> "Parametric", f |-> "hyperbola", t_range |-> <<0, 6 * Scale>>, width |-> 6],
     [geo_type |-> "Explicit", f |-> "pole", t_range |-> <<0, 0>>, width |-> 6],
     [geo_type |-> "Geometry", f |-> "none", t_range |-> <<0, 0>>, width |-> 6]}

\* window.inner_size() when the window is created, and the sizes of Resized
\* events (a minimised window has size 0 x 0)
CreatedSizes == {<<800, 600>>}
ResizedSizes == {<<400, 600>>, <<0, 0>>}
\* cursor positions of CursorMoved events, in pixels
CursorPositions == {<<100, 100>>, <<500, 300>>}
\* y of MouseScrollDelta::LineDelta: one notch up or down
WheelDeltas == {1, 0 - 1}

\* x_range and y_range of update_sim
x_range(p) ==
    LET aspect == FDiv(p.config[1], p.config[2])
        range_y == FDiv(2 * Scale, p.zoom)
        range_x == FxMul(range_y, aspect)
    IN  <<FSub(p.center_x, range_x), FAdd(p.center_x, range_x)>>

y_range(p) ==
    LET range_y == FDiv(2 * Scale, p.zoom)
    IN  <<FSub(p.center_y, range_y), FAdd(p.center_y, range_y)>>

\* the solver call update_sim makes for an object (none for Geometry)
SolverCall(obj, p) ==
    LET width == p.config[1]
        height == p.config[2]
    IN  CASE obj.geo_type = "Implicit" ->
               [solver |-> "implicit",
                args |-> [f |-> obj.f, x_range |-> x_range(p), y_range |-> y_range(p),
                          screen_w |-> width, screen_h |-> height]]
          [] obj.geo_type = "Parametric" ->
               [solver |-> "parametric",
                args |-> [f |-> obj.f, t_min |-> obj.t_range[1], t_max |-> obj.t_range[2],
                          width_px |-> obj.width, zoom |-> p.zoom,
                          aspect |-> FDiv(width, height), screen_h |-> height]]
          [] obj.geo_type = "Explicit" ->
               [solver |-> "explicit",
                args |-> [f |-> obj.f, x_min |-> x_range(p)[1], x_max |-> x_range(p)[2],
                          width_px |-> obj.width, zoom |-> p.zoom,
                          screen_w |-> width, screen_h |-> height]]
          [] OTHER -> [solver |-> "none", args |-> <<>>]

HasSolver(c) == c.solver # "none"

\* (mutation: update_sim forgets to clear the flag)
update_sim_keeps_dirty(p) ==
    IF ~ p.state THEN p
    ELSE LET made == [i \in 1..Len(p.objects) |-> SolverCall(p.objects[i], p)]
         IN  [p EXCEPT !.layers = made, !.calls = SelectSeq(made, HasSolver)]

\* update_sim: nothing without a window state; else the layers are brought
\* to the number of objects, every object is tessellated for the current
\* viewport into its layer, and dirty is cleared
update_sim(p) ==
    IF ~ p.state THEN p
    ELSE LET made == [i \in 1..Len(p.objects) |-> SolverCall(p.objects[i], p)]
         IN  [p EXCEPT !.layers = made, !.calls = SelectSeq(made, HasSolver),
                       !.dirty = FALSE]

\* what add_object and every handler start from: no solver called yet
Handling(p) == [p EXCEPT !.calls = <<>>, !.events = @ + 1]

PlotterStep ==
    /\ solver = "plotter" /\ ~ panicked /\ plotter.events < MaxEvents
    /\ UNCHANGED <<solver, pc, args, path, idx, vertices, indices, evals, parts, done, returned,
                   env>>

add_object ==
    /\ PlotterStep /\ Len(plotter.objects) < MaxObjects
    /\ \E obj \in GeoObjs :
          plotter' = [Handling(plotter) EXCEPT !.objects = Append(@, obj)]
    /\ UNCHANGED panicked

resumed ==
    /\ PlotterStep /\ ~ plotter.state
    /\ \E size \in CreatedSizes :
          plotter' = [Handling(plotter) EXCEPT !.state = TRUE, !.size = size,
                                               !.config = size, !.layers = <<>>]
    /\ UNCHANGED panicked

\* 1.1f64.powf(y) times zoom, for y = 1 and y = -1
Zoomed(zoom, y) == IF y > 0 THEN (zoom * 11) \div 10 ELSE (zoom * 10) \div 11

MouseWheel ==
    /\ PlotterStep
    /\ \E y \in WheelDeltas :
          IF ~ plotter.state
          THEN \* self.state.as_ref().unwrap() on None
               /\ panicked' = TRUE
               /\ plotter' = Handling(plotter)
          ELSE LET p == Handling(plotter)
                   size == p.size
                   mouse_pos == IF p.last_mouse_pos = <<>>
                                THEN <<size[1] \div 2, size[2] \div 2>>
                                ELSE p.last_mouse_pos
                   aspect == FDiv(size[1], size[2])
                   full_world_h == FDiv(4 * Scale, p.zoom)
                   full_world_w == FxMul(full_world_h, aspect)
                   mouse_rel_x == FSub(FDiv(mouse_pos[1], size[1]), Scale \div 2)
                   mouse_rel_y == FSub(Scale \div 2, FDiv(mouse_pos[2], size[2]))
                   mouse_world_x == FAdd(p.center_x, FxMul(mouse_rel_x, full_world_w))
                   mouse_world_y == FAdd(p.center_y, FxMul(mouse_rel_y, full_world_h))
                   zoom == Zoomed(p.zoom, y)
                   new_full_world_h == FDiv(4 * Scale, zoom)
                   new_full_world_w == FxMul(new_full_world_h, aspect)
               IN  /\ plotter' = [p EXCEPT
                          !.zoom = zoom,
                          !.center_x = FSub(mouse_world_x, FxMul(mouse_rel_x, new_full_world_w)),
                          !.center_y = FSub(mouse_world_y, FxMul(mouse_rel_y, new_full_world_h)),
                          !.dirty = TRUE]
                   /\ UNCHANGED panicked

MouseInput ==
    /\ PlotterStep
    /\ \E pressed \in BOOLEAN :
          plotter' = [Handling(plotter) EXCEPT !.is_dragging = pressed]
    /\ UNCHANGED panicked

CursorMoved ==
    /\ PlotterStep
    /\ \E position \in CursorPositions :
          LET p == Handling(plotter)
              last == p.last_mouse_pos
              size == p.size
              aspect == FDiv(size[1], size[2])
              world_h == FDiv(4 * Scale, p.zoom)
              world_w == FxMul(world_h, aspect)
              dx == FxMul(FDiv(position[1] - last[1], size[1]), world_w)
              dy == FxMul(FDiv(position[2] - last[2], size[2]), world_h)
          IN  IF p.is_dragging /\ p.state /\ last # <<>>
              THEN plotter' = [p EXCEPT !.center_x = FSub(@, dx), !.center_y = FAdd(@, dy),
                                        !.dirty = TRUE, !.last_mouse_pos = position]
              ELSE plotter' = [p EXCEPT !.last_mouse_pos = position]
    /\ UNCHANGED panicked

Resized ==
    /\ PlotterStep
    /\ \E new_size \in ResizedSizes :
          IF plotter.state
          THEN plotter' = [Handling(plotter) EXCEPT
                              !.size = new_size,
                              !.config = <<Max(new_size[1], 1), Max(new_size[2], 1)>>,
                              !.dirty = TRUE]
          ELSE plotter' = Handling(plotter)
    /\ UNCHANGED panicked

\* redraw: update_sim if dirty; nothing more without a window state; else
\* the layer of every object is drawn (layers[i] panics when there are
\* fewer layers than objects) and the frame is presented
RedrawRequested ==
    /\ PlotterStep
    /\ LET p == IF plotter.dirty THEN update_sim(Handling(plotter)) ELSE Handling(plotter)
       IN  IF ~ p.state THEN plotter' = p /\ UNCHANGED panicked
           ELSE IF Len(p.layers) < Len(p.objects)
                THEN plotter' = p /\ panicked' = TRUE
                ELSE /\ plotter' = [p EXCEPT !.drawn = SubSeq(p.layers, 1, Len(p.objects)),
                                             !.frames = @ + 1]
                     /\ UNCHANGED panicked

InitPlotter == solver = "plotter" /\ args = <<>> /\ InitBuffers

NextPlotter ==
    add_object \/ resumed \/ MouseWheel \/ MouseInput \/ CursorMoved \/ Resized
        \/ RedrawRequested

SpecPlotter == InitPlotter /\ [][NextPlotter]_vars

\* a range of zero or negative length, or a screen dimension of 0, among the
\* arguments of the call (resolution = u32::MAX is the case of C4)
DegenerateCall ==
    LET empty(r) == r[2] - r[1] <= 0
    IN  CASE solver = "explicit"   -> args.x_max - args.x_min <= 0 \/ args.screen_w = 0
                                        \/ args.screen_h = 0
          [] solver = "parametric" -> args.t_max - args.t_min <= 0 \/ args.screen_h = 0
          [] solver = "implicit"   -> empty(args.x_range) \/ empty(args.y_range)
                                        \/ args.screen_w = 0 \/ args.screen_h = 0
          [] solver = "mc"         -> /\ args.resolution # U32_MAX
                                      /\ \/ empty(args.x_range) \/ empty(args.y_range)
                                         \/ empty(args.z_range)
          [] solver = "surface"    -> args.u_max - args.u_min <= 0 \/ args.v_max - args.v_min <= 0
          [] solver = "tube"       -> args.t_max - args.t_min <= 0
          [] OTHER                 -> FALSE

\* C1 (as claimed): each of the six solvers returns an empty buffer (no
\* vertices, no indices) and does not panic whenever a range passed to it has
\* zero or negative length or a screen dimension passed to it is 0.
C1_DegenerateReturnsEmpty ==
    DegenerateCall =>
        /\ ~ panicked
        /\ pc = "done" => (vertices = <<>> /\ indices = <<>>)

\* C3: every MeshData returned by ImplicitSurfaceSolver::solve,
\* new_parametric_surface, ParametricCurveSolver::solve and new_plane has
\* every index below vertices.len() and a number of indices divisible by 3;
\* the MeshData of new_axes has every index below vertices.len() and an even
\* number of indices.
C3_IndicesInRange ==
    (pc = "done" /\ solver \in {"mc", "surface", "tube", "plane", "axes"}) =>
        /\ \A n \in 1..Len(indices) : indices[n] >= 0 /\ indices[n] < Len(vertices)
        /\ Len(indices) % (IF solver = "axes" THEN 2 ELSE 3) = 0

C3_Witness ==
    /\ pc = "done" /\ solver = "tube"
    /\ args.path_segments = MaxPathSegments /\ args.tube_segments = 4
    /\ Len(indices) = 6 * 4 * MaxPathSegments
    /\ indices[Len(indices)] = Len(vertices) - 1

\* C4 (as claimed): for finite range bounds, any resolution / segment count
\* and any function value, no solver call panics.
C4_NoPanic == ~ panicked

(***************************************************************************)
(* Claims about the implicit 2D solver (checked under SpecImplicit).       *)
(***************************************************************************)
UnitCircleCall ==
    /\ solver = "implicit" /\ args.f = "circle"
    /\ args.x_range = <<0 - (3 * args.r) \div 2, (3 * args.r) \div 2>>
    /\ args.y_range = args.x_range

\* C8: for f(x, y) = x^2 + y^2 - 1 over [-1.5, 1.5]^2 every point P returned
\* by ImplicitSolver::solve has | |P| - 1 | < 2 * grid_step, grid_step being
\* the cell size of the clamped grid (the smaller of its two sides).
C8_CircleWithinTwoSteps ==
    (UnitCircleCall /\ pc = "done") =>
        LET grid_step == Min((3 * args.r) \div grid_w(args), (3 * args.r) \div grid_h(args))
        IN  \A n \in 1..Len(vertices) :
               /\ is_finite(vertices[n][1]) /\ is_finite(vertices[n][2])
               /\ Abs(sqrt(vertices[n][1] * vertices[n][1] + vertices[n][2] * vertices[n][2])
                        - args.r) < 2 * grid_step

C8_Witness ==
    /\ UnitCircleCall /\ pc = "done"
    /\ grid_w(args) = 700 /\ grid_h(args) = 100
    /\ Len(vertices) > 1000

(***************************************************************************)
(* Claims about marching cubes (checked under SpecSphere and SpecMC).      *)
(***************************************************************************)
\* six times the signed volume of the tetrahedra from the origin to the
\* triangles lo..hi of the returned mesh
RECURSIVE Volume6(_, _)
Volume6(lo, hi) ==
    IF lo > hi THEN 0
    ELSE IF lo = hi
         THEN LET p1 == vertices[indices[3 * lo - 2] + 1].position
                  p2 == vertices[indices[3 * lo - 1] + 1].position
                  p3 == vertices[indices[3 * lo] + 1].position
              IN  dot(p1, cross(p2, p3))
    ELSE Volume6(lo, (lo + hi) \div 2) + Volume6((lo + hi) \div 2 + 1, hi)

\* C9: for f = x^2 + y^2 + z^2 - R^2 with R = 1 over [-1.5, 1.5]^3 at
\* resolution 40, the returned mesh encloses a signed volume within 5% of
\* 4/3 pi R^3 (6 V / R^3 within 5% of 8 pi = 25.133) and every vertex
\* position v has | |v| - R | < 0.1.
C9_SphereVolume ==
    (solver = "mc" /\ pc = "done" /\ args.resolution = 40) =>
        /\ Abs(Volume6(1, Len(indices) \div 3) \div ((args.r * args.r * args.r) \div 1000)
                 - 25133) <= 1256
        /\ \A n \in 1..Len(vertices) :
               /\ VFinite(vertices[n].position)
               /\ 10 * Abs(sqrt(dot(vertices[n].position, vertices[n].position)) - args.r)
                    < args.r

C9_Witness ==
    /\ solver = "mc" /\ pc = "done" /\ args.resolution = 40 /\ args.f = "sphere"
    /\ Len(vertices) > 3000 /\ Len(indices) = Len(vertices)

\* the number of vertices the layers before layer c produce
RECURSIVE LayerOffset(_)
LayerOffset(c) ==
    IF c <= 0 THEN 0
    ELSE LayerOffset(c - 1) + Len(MarchLayer(args, path, c - 1).vertices)

\* C10: whatever order the workers ran and finished in, each worker's part is
\* what its z-layer yields, and the merge puts local vertex x of chunk c at
\* final_vertices[x + off_c] and local triangle (a, b, d) of chunk c into the
\* index buffer as (a + off_c, b + off_c, d + off_c), off_c being the vertex
\* count of the chunks merged before c; a step of a parallel phase changes
\* the data of one worker only and leaves the final buffers alone.
C10_MergeRebases ==
    /\ [](solver = "mc" /\ pc \in {"march", "merge", "done"} =>
            /\ pc = "march" =>
                  \A k \in done : parts[k + 1] = MarchLayer(args, path, k)
            /\ pc = "merge" =>
                  \A k \in 1..Len(parts) : parts[k] = MarchLayer(args, path, k - 1)
            /\ pc = "done" =>
                  \A c \in 0..(args.resolution - 1) :
                     LET part == MarchLayer(args, path, c)
                         off == LayerOffset(c)
                     IN  /\ \A x \in 1..Len(part.vertices) :
                                vertices[off + x] = part.vertices[x]
                         /\ \A n \in 1..Len(part.indices) :
                                indices[off + n] = part.indices[n] + off)
    /\ [][(solver = "mc" /\ pc \in {"field", "march"}) =>
            /\ vertices' = vertices /\ indices' = indices
            /\ Cardinality({k \in DOMAIN parts : parts'[k] # parts[k]}) <= 1
            /\ Cardinality({k \in DOMAIN path : path'[k] # path[k]}) <= 1]_vars

C10_Witness ==
    /\ solver = "mc" /\ pc = "done" /\ args.threads = 2 /\ args.resolution = 2
    /\ Len(MarchLayer(args, path, 0).vertices) > 0
    /\ Len(vertices) > Len(MarchLayer(args, path, 0).vertices)
    /\ indices[Len(indices)] = Len(vertices) - 1

(***************************************************************************)
(* Claims about the phases of marching cubes (checked under SpecMC).       *)
(***************************************************************************)
\* C11: in phase 1 each of the (N+1)^3 grid points is evaluated exactly once
\* and its value is stored at index k(N+1)^2 + j(N+1) + i; a slice that a
\* worker has written is written by no other step; every entry is written
\* before phase 2 starts, and phase 2 and the merge do not write the scalar
\* array.  (evals counts the evaluations at grid points.)
C11_FieldWrittenOnce ==
    /\ [](solver = "mc" /\ pc \in {"march", "merge", "done"} =>
            LET res_p1 == args.resolution + 1
            IN  /\ evals = res_p1 * res_p1 * res_p1
                /\ Len(path) = res_p1
                /\ \A i, j, k \in 0..args.resolution :
                      path[k + 1][j * res_p1 + i + 1] = FieldF(args, GridPos(args, i, j, k)))
    /\ [][(solver = "mc" /\ pc = "field") =>
            LET res_p1 == args.resolution + 1
                written == IF pc' = "field" THEN done' ELSE 0..args.resolution
            IN  /\ \A k \in done : path'[k + 1] = path[k + 1]
                /\ done \subseteq written
                /\ evals' - evals = res_p1 * res_p1 * Cardinality(written \ done)]_vars
    /\ [][(solver = "mc" /\ pc \in {"march", "merge"}) => path' = path]_vars

C11_Witness ==
    /\ solver = "mc" /\ pc = "march" /\ args.threads = 2 /\ args.resolution = 2
    /\ evals = 27 /\ done # {}
    /\ path[3][9] # 0

(***************************************************************************)
(* Claims about the column workers of the implicit 2D solver (checked      *)
(* under SpecImplicit).                                                    *)
(***************************************************************************)
\* a sequential scan, column by column, of columns lo..hi
RECURSIVE SequentialScan(_, _, _)
SequentialScan(a, lo, hi) ==
    IF lo > hi THEN <<>>
    ELSE IF lo = hi THEN ImplicitRows(a, lo, 0, grid_h(a) - 1)
    ELSE SequentialScan(a, lo, (lo + hi) \div 2) \o SequentialScan(a, (lo + hi) \div 2 + 1, hi)

\* s and t hold the same elements the same number of times
SameBag(s, t) ==
    /\ Len(s) = Len(t)
    /\ \A n \in 1..Len(s) :
          Cardinality({m \in 1..Len(s) : s[m] = s[n]}) = Cardinality({m \in 1..Len(t) : t[m] = s[n]})

\* C12: a step of a column worker changes the local buffers of its own
\* columns only (never a finished column's buffer, never the returned
\* buffer), and whatever the order of the workers the returned buffer holds
\* the same multiset of points as a sequential column-by-column scan.
C12_ColumnsIndependent ==
    /\ [](solver = "implicit" /\ pc = "done" =>
            LET scan == SequentialScan(args, 0, grid_w(args) - 1)
            IN  vertices = scan \/ SameBag(vertices, scan))
    /\ [][(solver = "implicit" /\ pc = "columns" /\ pc' = "columns") =>
            /\ vertices' = vertices
            /\ \A i \in 1..Len(parts) :
                  parts'[i] # parts[i] => (i - 1 \in done' /\ i - 1 \notin done)]_vars

\* a call on a pool of two threads, whose runs of columns were taken in some
\* order, has returned the points of the circle
C12_Witness ==
    /\ solver = "implicit" /\ pc = "done" /\ args.threads = 2
    /\ Len(vertices) > 100

ViewOf(p) == <<p.center_x, p.center_y, p.zoom, p.config>>

\* call c is the call of the solver of object obj for the viewport of p
Matching(obj, c, p) ==
    CASE obj.geo_type = "Implicit" ->
           /\ c.solver = "implicit" /\ c.args.f = obj.f
           /\ c.args.x_range = x_range(p) /\ c.args.y_range = y_range(p)
           /\ c.args.screen_w = p.config[1] /\ c.args.screen_h = p.config[2]
      [] obj.geo_type = "Parametric" ->
           /\ c.solver = "parametric" /\ c.args.f = obj.f
           /\ <<c.args.t_min, c.args.t_max>> = obj.t_range
           /\ c.args.zoom = p.zoom /\ c.args.screen_h = p.config[2]
      [] obj.geo_type = "Explicit" ->
           /\ c.solver = "explicit" /\ c.args.f = obj.f
           /\ <<c.args.x_min, c.args.x_max>> = x_range(p)
           /\ c.args.zoom = p.zoom
           /\ c.args.screen_w = p.config[1] /\ c.args.screen_h = p.config[2]
      [] OTHER -> c.solver = "none"

\* C14: a zoom, a pan or a resize leaves dirty set (and so does any step
\* that changes the view); a redraw with a window state while dirty calls,
\* for the view as it is, the solver of each object once and in the order
\* of the objects, draws what those calls returned and clears dirty; a redraw
\* while dirty is false, and any handler but redraw, calls no solver; without
\* a window state dirty stays set.
C14_DirtyDrivesSolvers ==
    /\ [](solver = "plotter" /\ ~ plotter.state => plotter.dirty)
    /\ [][(ViewOf(plotter') # ViewOf(plotter)) => plotter'.dirty]_vars
    /\ [][((MouseWheel \/ Resized) /\ plotter.state) => plotter'.dirty]_vars
    /\ [][(CursorMoved /\ plotter.state /\ plotter.is_dragging
              /\ plotter.last_mouse_pos # <<>>) => plotter'.dirty]_vars
    /\ [][(RedrawRequested /\ plotter.state /\ plotter.dirty) =>
              LET p == plotter'
                  with_solver == {i \in 1..Len(p.objects) : p.objects[i].geo_type # "Geometry"}
              IN  /\ ~ p.dirty /\ ~ panicked'
                  /\ ViewOf(p) = ViewOf(plotter) /\ p.objects = plotter.objects
                  /\ Len(p.layers) = Len(p.objects)
                  /\ \A i \in 1..Len(p.objects) : Matching(p.objects[i], p.layers[i], p)
                  /\ p.calls = SelectSeq(p.layers, HasSolver)
                  /\ Len(p.calls) = Cardinality(with_solver)
                  /\ p.drawn = p.layers /\ p.frames = plotter.frames + 1]_vars
    /\ [][(RedrawRequested /\ ~ plotter.dirty) =>
              (plotter'.calls = <<>> /\ plotter'.layers = plotter.layers)]_vars
    /\ [][(RedrawRequested /\ ~ plotter.state) =>
              (plotter'.dirty /\ plotter'.calls = <<>> /\ plotter'.frames = plotter.frames)]_vars
    /\ [][(solver = "plotter" /\ ~ RedrawRequested) => plotter'.calls = <<>>]_vars

C14_Witness ==
    /\ solver = "plotter" /\ plotter.state /\ ~ plotter.dirty
    /\ plotter.zoom # Scale /\ plotter.frames >= 1
    /\ Len(plotter.objects) = 2 /\ Len(plotter.calls) = 2
    /\ plotter.calls[1].solver = "implicit" /\ plotter.calls[1].args.y_range[2] # 2 * Scale

(***************************************************************************)
(* Claims about the sizes and order of the tube mesh (SpecTube).           *)
(***************************************************************************)
\* C15: the tube has (path_segments + 1) * (tube_segments + 1) vertices and
\* 6 * path_segments * tube_segments indices; the six indices of cell (i, j),
\* cells in row-major order, are a, d, b, b, d, c with a = i * (T + 1) + j,
\* b = a + 1, d = (i + 1) * (T + 1) + j, c = d + 1.
C15_TubeSizes ==
    (solver = "tube" /\ pc = "done") =>
        LET P == args.path_segments
            T == args.tube_segments
        IN  /\ Len(vertices) = (P + 1) * (T + 1)
            /\ Len(indices) = 6 * P * T
            /\ \A i \in 0..(P - 1) : \A j \in 0..(T - 1) :
                  LET a == i * (T + 1) + j
                      b == a + 1
                      d == (i + 1) * (T + 1) + j
                      c == d + 1
                  IN  SubSeq(indices, 6 * (i * T + j) + 1, 6 * (i * T + j) + 6)
                          = <<a, d, b, b, d, c>>

C15_Witness ==
    /\ solver = "tube" /\ pc = "done"
    /\ args.path_segments = 3 /\ args.tube_segments = 4
    /\ Len(vertices) = 20 /\ Len(indices) = 72 /\ indices[67] = 13

(***************************************************************************)
(* Claims about the vertex buffer of the surface mesher (SpecSurface).     *)
(***************************************************************************)
\* C16: new_parametric_surface returns (u_segments + 1) * (v_segments + 1)
\* vertices, the sample (i, j) at index i * (v_segments + 1) + j; a sample
\* with a non-finite coordinate is stored as the sentinel (NaN position, zero
\* normal), a finite one with its position; there are at most
\* 6 * u_segments * v_segments indices.  (The vertices are checked as they
\* are pushed, and all of them are there once the index loop starts.)
C16_SurfaceVertices ==
    solver = "surface" =>
        LET U == args.u_segments
            V == args.v_segments
        IN  /\ pc \in {"indices", "done"} => Len(vertices) = (U + 1) * (V + 1)
            /\ Len(indices) <= 6 * U * V
            /\ \A n \in 0..(Len(vertices) - 1) :
                  LET i == n \div (V + 1)
                      j == n % (V + 1)
                      pos == SurfaceF(args, GridCoord(args.u_min, args.u_max, U, i),
                                            GridCoord(args.v_min, args.v_max, V, j))
                      vx == vertices[i * (V + 1) + j + 1]
                  IN  IF is_finite(pos[1]) /\ is_finite(pos[2]) /\ is_finite(pos[3])
                      THEN vx.position = pos
                      ELSE vx.position = <<NaN, NaN, NaN>> /\ vx.normal = ZERO

C16_Witness ==
    /\ solver = "surface" /\ pc = "done"
    /\ args.f = "hole" /\ args.hole = <<Scale, Scale>> /\ args.badc = 3 /\ args.bad = PInf
    /\ args.u_segments = 3 /\ args.v_segments = 3
    /\ Len(vertices) = 16 /\ vertices[6].position = <<NaN, NaN, NaN>>
    /\ vertices[7].position = <<Scale, 2 * Scale, 0>> /\ Len(indices) > 0

(***************************************************************************)
(* Claims about the ribbons of the explicit and parametric solvers         *)
(* (SpecRibbon).                                                           *)
(***************************************************************************)
\* the pair (p0, p1) survives: both y finite, |y1 - y0| within the jump
\* threshold 10 * (2 / zoom), and the segment has a length
ExplicitSurvives(a, p0, p1) ==
    /\ is_finite(p0[2]) /\ is_finite(p1[2])
    /\ Abs(p1[2] - p0[2]) <= ASYMPTOTE_THRESHOLD_FACTOR * view_height_world(a.zoom)
    /\ (p1[1] - p0[1]) * (p1[1] - p0[1]) + (p1[2] - p0[2]) * (p1[2] - p0[2]) > 0

\* the ribbon of the pairs (pts[i], pts[i + 1]), i in lo..hi, in order
RECURSIVE ExplicitRibbon(_, _, _, _)
ExplicitRibbon(a, pts, lo, hi) ==
    IF lo > hi THEN <<>>
    ELSE IF lo = hi
         THEN IF ExplicitSurvives(a, pts[lo], pts[lo + 1])
              THEN Quad(pts[lo], pts[lo + 1], SegLen(pts[lo], pts[lo + 1]),
                        half_width_world(a.width_px, a.zoom, a.screen_h))
              ELSE <<>>
    ELSE ExplicitRibbon(a, pts, lo, (lo + hi) \div 2)
             \o ExplicitRibbon(a, pts, (lo + hi) \div 2 + 1, hi)

ParametricSurvives(a, p0, p1) ==
    LET dx == p1[1] - p0[1]
        dy == p1[2] - p0[2]
        limit == JUMP_THRESHOLD_FACTOR * view_height_world(a.zoom)
    IN  /\ \A c \in {p0[1], p0[2], p1[1], p1[2]} : is_finite(c)
        /\ dx * dx + dy * dy >= 1
        /\ dx * dx + dy * dy <= limit * limit

\* the ribbon of the pairs (pts[i], pts[i + 1]), i in lo..hi, in order
RECURSIVE ParametricRibbon(_, _, _, _)
ParametricRibbon(a, pts, lo, hi) ==
    IF lo > hi THEN <<>>
    ELSE IF lo = hi
         THEN IF ParametricSurvives(a, pts[lo], pts[lo + 1])
              THEN Quad(pts[lo], pts[lo + 1], sqrt(dist_sq(pts[lo], pts[lo + 1])),
                        half_width_world(a.width_px, a.zoom, a.screen_h))
              ELSE <<>>
    ELSE ParametricRibbon(a, pts, lo, (lo + hi) \div 2)
             \o ParametricRibbon(a, pts, (lo + hi) \div 2 + 1, hi)

ColumnX(a, i) == GridCoord(a.x_range[1], a.x_range[2], grid_w(a), i)
RowY(a, j) == GridCoord(a.y_range[1], a.y_range[2], grid_h(a), j)

\* the rows j whose cell (i, j) has v00 * v10 <= 0 (bottom edge) and
\* v00 * v01 <= 0 (left edge)
BottomRows(a, i) ==
    {j \in 0..(grid_h(a) - 1) :
        SignChange(ImplicitF(a, ColumnX(a, i), RowY(a, j)),
                   ImplicitF(a, ColumnX(a, i + 1), RowY(a, j)))}

LeftRows(a, i) ==
    {j \in 0..(grid_h(a) - 1) :
        SignChange(ImplicitF(a, ColumnX(a, i), RowY(a, j)),
                   ImplicitF(a, ColumnX(a, i), RowY(a, j + 1)))}

Between(v, lo, hi) == Min(lo, hi) <= v /\ v <= Max(lo, hi)

ProperRanges(a) == a.x_range[1] < a.x_range[2] /\ a.y_range[1] < a.y_range[2]

\* p lies on the bottom or on the left edge of a cell of column i, that is
\* at a parameter t in [0, 1] of that edge
OnEdgeOfColumn(p, a, i) ==
    \E j \in 0..(grid_h(a) - 1) :
        \/ p[2] = RowY(a, j) /\ Between(p[1], ColumnX(a, i), ColumnX(a, i + 1))
        \/ p[1] = ColumnX(a, i) /\ Between(p[2], RowY(a, j), RowY(a, j + 1))

\* C19 (as claimed): every cell gives a point on its bottom edge exactly when
\* v00 * v10 <= 0 and a point on its left edge exactly when v00 * v01 <= 0,
\* at t = clamp(-v0 / (v1 - v0), 0, 1) (0.5 when the values are equal), so t
\* is always in [0, 1]: the point lies on its edge, and an edge has at most
\* one point.  (Stated for the calls whose ranges are not empty.)
C19_PointsOnEdges ==
    (solver = "implicit" /\ pc = "done" /\ ProperRanges(args)) =>
        \A i \in 0..(grid_w(args) - 1) :
            /\ Len(parts[i + 1])
                 = Cardinality(BottomRows(args, i)) + Cardinality(LeftRows(args, i))
            /\ \A n \in 1..Len(parts[i + 1]) : OnEdgeOfColumn(parts[i + 1][n], args, i)

\* the rows of column i whose bottom (left) edge has two finite values with
\* a product <= 0
FiniteBottomRows(a, i) ==
    {j \in BottomRows(a, i) :
        /\ is_finite(ImplicitF(a, ColumnX(a, i), RowY(a, j)))
        /\ is_finite(ImplicitF(a, ColumnX(a, i + 1), RowY(a, j)))}

FiniteLeftRows(a, i) ==
    {j \in LeftRows(a, i) :
        /\ is_finite(ImplicitF(a, ColumnX(a, i), RowY(a, j)))
        /\ is_finite(ImplicitF(a, ColumnX(a, i), RowY(a, j + 1)))}

\* C20 (as claimed): an edge with a non-finite value at an endpoint is
\* skipped (the points of a column are those of its edges with two finite
\* values), and no returned point has a non-finite coordinate.  (Stated for
\* the calls whose ranges are not empty.)
C20_NonFiniteEdgesSkipped ==
    (solver = "implicit" /\ pc = "done" /\ ProperRanges(args)) =>
        /\ \A n \in 1..Len(vertices) :
              is_finite(vertices[n][1]) /\ is_finite(vertices[n][2])
        /\ \A i \in 0..(grid_w(args) - 1) :
              Len(parts[i + 1])
                = Cardinality(FiniteBottomRows(args, i)) + Cardinality(FiniteLeftRows(args, i))

(***************************************************************************)
(* Claims about the cells of marching cubes (checked under SpecMC).        *)
(***************************************************************************)
\* the scalar value at corner n (1..8) of cell (i, j, k): the value of the
\* grid point at offset corner_offsets[n] from the cell origin
CornerValue(a, i, j, k, n) ==
    FieldF(a, GridPos(a, i + corner_offsets[n][1], j + corner_offsets[n][2],
                      k + corner_offsets[n][3]))

Negative(v) == v # NaN /\ v < 0

\* the number whose bit n - 1 is set iff corner n is negative
SignBits(a, i, j, k) ==
    LET bit(n) == IF Negative(CornerValue(a, i, j, k, n)) THEN 2 ^ (n - 1) ELSE 0
    IN  bit(1) + bit(2) + bit(3) + bit(4) + bit(5) + bit(6) + bit(7) + bit(8)

\* all eight corners negative, or none
OneSided(a, i, j, k) ==
    \/ \A n \in 1..8 : Negative(CornerValue(a, i, j, k, n))
    \/ \A n \in 1..8 : ~ Negative(CornerValue(a, i, j, k, n))

\* the triangles of row c of TRI_TABLE
RowTriangles(c) == Cardinality({t \in {0, 3, 6, 9, 12} : TRI_TABLE[c + 1][t + 1] # 0 - 1})

\* the triangles of the cells n..(resolution^2 - 1) of layer k, by sign bits
RECURSIVE LayerTriangles(_, _, _)
LayerTriangles(a, k, n) ==
    IF n >= a.resolution * a.resolution THEN 0
    ELSE RowTriangles(SignBits(a, n % a.resolution, n \div a.resolution, k))
           + LayerTriangles(a, k, n + 1)

\* the layers the workers have returned
LayersDone ==
    IF pc = "march" THEN done
    ELSE IF pc = "merge" THEN 0..(args.resolution - 1)
    ELSE {}

\* C21: in every cell, bit n of cube_index is set iff the value at corner n
\* (the grid point at offset corner_offsets[n]) is negative; the edge mask is
\* 0 and the cell gives no triangle iff the eight corners are all negative or
\* all non-negative, and it gives at least one triangle otherwise; a layer
\* holds three vertices for each triangle of each of its cells.
C21_CubeIndexBySign ==
    solver = "mc" =>
        \A k \in LayersDone :
            /\ Len(parts[k + 1].vertices) = 3 * LayerTriangles(args, k, 0)
            /\ \A i, j \in 0..(args.resolution - 1) :
                  LET ci == cube_index(corner_vals(args, path, i, j, k))
                      cell == MarchCell(args, path, i, j, k)
                  IN  /\ ci = SignBits(args, i, j, k)
                      /\ EDGE_TABLE[ci + 1] = 0 <=> OneSided(args, i, j, k)
                      /\ OneSided(args, i, j, k) => Len(cell) = 0
                      /\ ~ OneSided(args, i, j, k) => Len(cell) >= 3

C21_Witness ==
    /\ solver = "mc" /\ pc = "merge" /\ args.f = "plane" /\ args.resolution = 2
    /\ args.r = Scale \div 2 /\ args.x_range[1] < args.x_range[2]
    /\ Len(parts[1].vertices) = 0 /\ Len(parts[2].vertices) >= 12
    /\ cube_index(corner_vals(args, path, 0, 0, 1)) = 51

\* the vertices cell number n (n = j * resolution + i) of layer k has put
\* into the layer's buffer: those after the triangles of the cells before it
CellVertices(a, k, n) ==
    LET before == 3 * (LayerTriangles(a, k, 0) - LayerTriangles(a, k, n))
        count == 3 * RowTriangles(SignBits(a, n % a.resolution, n \div a.resolution, k))
    IN  SubSeq(parts[k + 1].vertices, before + 1, before + count)

\* the two corners (1..8) of edge e (0..11), as the claim lists them
EdgePairs ==
    <<<<1, 2>>, <<2, 3>>, <<3, 4>>, <<4, 1>>, <<5, 6>>, <<6, 7>>, <<7, 8>>, <<8, 5>>,
      <<1, 5>>, <<2, 6>>, <<3, 7>>, <<4, 8>>>>

\* C22: edge e joins the corner pair (0,1),(1,2),(2,3),(3,0),(4,5),(5,6),
\* (6,7),(7,4),(0,4),(1,5),(2,6),(3,7), two grid points one step apart along
\* one axis; every edge a triangle of a cell refers to has its bit in the
\* cell's edge mask; the vertex on an edge with two finite values, one
\* negative and one not, lies on the segment between the two corners; and
\* vertex_interp returns its first corner when the two values are finite and
\* equal.
C22_EdgesInterpolated ==
    solver = "mc" =>
        /\ \A e \in 1..12 :
              /\ EdgeCorners[e] = <<EdgePairs[e][1] - 1, EdgePairs[e][2] - 1>>
              /\ LET o1 == corner_offsets[EdgePairs[e][1]]
                     o2 == corner_offsets[EdgePairs[e][2]]
                 IN  Abs(o1[1] - o2[1]) + Abs(o1[2] - o2[2]) + Abs(o1[3] - o2[3]) = 1
        /\ \A k \in LayersDone : \A n \in 0..(args.resolution * args.resolution - 1) :
              LET i == n % args.resolution
                  j == n \div args.resolution
                  ci == SignBits(args, i, j, k)
                  out == CellVertices(args, k, n)
              IN  \A m \in 1..Len(out) :
                     LET e == TRI_TABLE[ci + 1][m] + 1
                         c1 == EdgePairs[e][1]
                         c2 == EdgePairs[e][2]
                         v1 == CornerValue(args, i, j, k, c1)
                         v2 == CornerValue(args, i, j, k, c2)
                         p1 == GridPos(args, i + corner_offsets[c1][1], j + corner_offsets[c1][2],
                                       k + corner_offsets[c1][3])
                         p2 == GridPos(args, i + corner_offsets[c2][1], j + corner_offsets[c2][2],
                                       k + corner_offsets[c2][3])
                     IN  /\ e >= 1
                         /\ (EDGE_TABLE[ci + 1] \div 2 ^ (e - 1)) % 2 = 1
                         /\ Negative(v1) # Negative(v2)
                         /\ is_finite(v1) => vertex_interp(p1, v1, p2, v1) = p1
                         /\ (is_finite(v1) /\ is_finite(v2)) =>
                               \A c \in 1..3 : Between(out[m].position[c], p1[c], p2[c])

C22_Witness ==
    /\ solver = "mc" /\ pc = "merge" /\ args.f = "sphere" /\ args.bad = 0
    /\ args.r = Scale /\ args.resolution = 2
    /\ args.x_range[1] < args.x_range[2] /\ args.z_range[1] < args.z_range[2]
    /\ Len(CellVertices(args, 0, 0)) >= 3
    /\ CellVertices(args, 0, 0)[1].position # GridPos(args, 1, 1, 1)
    /\ \E c \in 1..3 : CellVertices(args, 0, 0)[1].position[c] \notin {0 - 150, 0}

\* the cell (i, j, k) has a NaN or infinite value at one of its corners
HasNonFiniteCorner(a, i, j, k) ==
    \E n \in 1..8 : ~ is_finite(CornerValue(a, i, j, k, n))

\* the triangles of the layers k, k + 1, ... of the call
RECURSIVE SumLayerTriangles(_, _)
SumLayerTriangles(a, k) ==
    IF k >= a.resolution THEN 0
    ELSE LayerTriangles(a, k, 0) + SumLayerTriangles(a, k + 1)

\* C23: a cell with a non-finite value at one of its corners is skipped, and
\* no vertex with a non-finite position appears in a layer or in the mesh.
C23_NonFiniteCellsSkipped ==
    solver = "mc" =>
        /\ \A k \in LayersDone :
              /\ \A i, j \in 0..(args.resolution - 1) :
                    HasNonFiniteCorner(args, i, j, k) =>
                        Len(MarchCell(args, path, i, j, k)) = 0
              /\ \A m \in 1..Len(parts[k + 1].vertices) :
                    \A c \in 1..3 : is_finite(parts[k + 1].vertices[m].position[c])
        /\ \A m \in 1..Len(vertices) :
              \A c \in 1..3 : is_finite(vertices[m].position[c])

\* C27: the mesh marching cubes returns has one vertex per index and three
\* per triangle (no vertex is shared), and index number i is i; so has each
\* worker's part before the merge.
C27_NoSharedVertex ==
    solver = "mc" =>
        /\ \A k \in LayersDone :
              /\ Len(parts[k + 1].vertices) = Len(parts[k + 1].indices)
              /\ \A n \in 1..Len(parts[k + 1].indices) : parts[k + 1].indices[n] = n - 1
        /\ pc = "done" =>
              /\ Len(vertices) = Len(indices)
              /\ Len(indices) = 3 * Cardinality(Triangles(indices))
              /\ Len(indices) = 3 * SumLayerTriangles(args, 0)
              /\ \A n \in 1..Len(indices) : indices[n] = n - 1

C27_Witness ==
    /\ solver = "mc" /\ pc = "done" /\ args.resolution = 2
    /\ LayerTriangles(args, 0, 0) > 0 /\ LayerTriangles(args, 1, 0) > 0
    /\ Len(indices) = 3 * (LayerTriangles(args, 0, 0) + LayerTriangles(args, 1, 0))
    /\ indices[Len(indices)] = Len(vertices) - 1

(***************************************************************************)
(* Claims about the frames of the tube mesher (checked under SpecTube).    *)
(***************************************************************************)
\* the path sample i of the call has a finite value and a finite, non-zero
\* derivative
RegularSample(a, i) ==
    LET t == GridCoord(a.t_min, a.t_max, a.path_segments, i)
    IN  /\ VFinite(CurveF(a.f, t))
        /\ VFinite(CurveDiff(a.f, t))
        /\ CurveDiff(a.f, t) # ZERO

\* v is a unit vector (its components are in units of 1 / Scale)
IsUnit(v) == VFinite(v) /\ dot(v, v) = Scale * Scale

\* C26: at every path sample with a finite value and a non-zero derivative
\* the tangent is a unit vector, the helper axis is J unless
\* |tangent . J| > 0.99, when it is K, the normal and the binormal are unit
\* vectors perpendicular to the tangent and to each other, and every vertex
\* of the sample's ring is at distance radius from the ring centre.
C26_FrameDefined ==
    solver = "tube" =>
        \A i \in 0..(Len(path) - 1) :
            RegularSample(args, i) =>
                LET tangent == TubeTangent(args, i)
                    frame == path[i + 1]
                    helper == IF 100 * Abs(dot(tangent, J)) > 99 * Scale THEN K ELSE J
                    per_ring == args.tube_segments + 1
                IN  /\ IsUnit(tangent)
                    /\ frame.normal = unit(cross(tangent, helper), 0)
                    /\ IsUnit(frame.normal) /\ IsUnit(frame.binormal)
                    /\ dot(tangent, frame.normal) = 0
                    /\ dot(tangent, frame.binormal) = 0
                    /\ dot(frame.normal, frame.binormal) = 0
                    /\ (args.tube_segments > 0 /\ Len(vertices) >= (i + 1) * per_ring) =>
                          \A j \in 1..per_ring :
                              LET r == VSub(vertices[i * per_ring + j].position, frame.pos)
                              IN  VFinite(r) /\ dot(r, r) = args.radius * args.radius

(***************************************************************************)
(* Claims about the layers and the viewport of D2Plotter (checked under    *)
(* SpecPlotter).                                                           *)
(***************************************************************************)
\* the step is a redraw with a window state that reaches the draw loop: it
\* presents a frame or panics in the loop
Draws == plotter'.state /\ (plotter'.frames # plotter.frames \/ panicked')

\* C28: whenever a redraw reaches the draw loop there is a layer for every
\* object (layers.len() == objects.len()), so layers[i] exists for every
\* object i and every object added before the frame has been drawn.
C28_LayerForEveryObject ==
    [][(solver = "plotter" /\ Draws) =>
          /\ ~ panicked'
          /\ Len(plotter'.layers) = Len(plotter'.objects)
          /\ Len(plotter'.drawn) = Len(plotter'.objects)]_vars

\* C29: the viewport world height the explicit and the parametric solver
\* assume for the zoom they are called with (2 / zoom) is the length of the
\* y_range update_sim computes for the same frame, and (up to rounding) the
\* world height of the zoom and pan handlers (4 / zoom).
C29_SameViewportHeight ==
    (solver = "plotter" /\ plotter.state) =>
        \A n \in 1..Len(plotter.calls) :
            LET call == plotter.calls[n]
            IN  call.solver \in {"explicit", "parametric"} =>
                    /\ view_height_world(call.args.zoom)
                          = FSub(y_range(plotter)[2], y_range(plotter)[1])
                    /\ Abs(view_height_world(call.args.zoom) - FDiv(4 * Scale, plotter.zoom)) <= 1

(***************************************************************************)
(* pakoo: Env, Slice and RPN (pakoo/env.rs, slice.rs, rpn.rs).  A MathData *)
(* is a record: Num(n) or Fun { para_count, body }; Panicked stands for an *)
(* evaluation that panicked.  An Op is a record too; an RPN is a sequence  *)
(* of Ops.                                                                 *)
(***************************************************************************)
MaxSlices == 3      \* slices added to an Env
MaxUpdates == 3     \* update calls on an Env

Num(n) == [kind |-> "Num", n |-> n, body |-> <<>>]
Fun(para_count, body) == [kind |-> "Fun", n |-> para_count, body |-> body]
Panicked == [kind |-> "Panic", n |-> 0, body |-> <<>>]

Push(n) == [op |-> "Push", n |-> n, paras |-> <<>>]
Add == [op |-> "Add", n |-> 0, paras |-> <<>>]
LoadPara(i) == [op |-> "LoadPara", n |-> i, paras |-> <<>>]
LoadGlobal(i) == [op |-> "LoadGlobal", n |-> i, paras |-> <<>>]
CallDef(i, para_rpns) == [op |-> "CallDef", n |-> i, paras |-> para_rpns]

\* RPN::eval from instruction k on, with the stack so far (stack[0] is the
\* result).  env_data[gi] and args[pi] panic out of bounds, lhs + rhs
\* panics unless both are numbers; a CallDef of a value that is not a Fun
\* pushes nothing.  (The slices of the model never pop an empty stack.)
RECURSIVE rpn_eval(_, _, _, _, _)
rpn_eval(ops, k, stack, env_data, call_args) ==
    IF k > Len(ops) THEN (IF stack = <<>> THEN Panicked ELSE stack[1])
    ELSE LET o == ops[k]
             top == Len(stack)
         IN  CASE o.op = "Push" ->
                    rpn_eval(ops, k + 1, Append(stack, Num(o.n)), env_data, call_args)
               [] o.op = "Add" ->
                    IF top < 2 THEN Panicked
                    ELSE IF stack[top].kind # "Num" \/ stack[top - 1].kind # "Num" THEN Panicked
                    ELSE rpn_eval(ops, k + 1,
                                  Append(SubSeq(stack, 1, top - 2),
                                         Num(stack[top - 1].n + stack[top].n)),
                                  env_data, call_args)
               [] o.op = "LoadGlobal" ->
                    IF o.n >= Len(env_data) THEN Panicked
                    ELSE rpn_eval(ops, k + 1, Append(stack, env_data[o.n + 1]),
                                  env_data, call_args)
               [] o.op = "LoadPara" ->
                    IF o.n >= Len(call_args) THEN Panicked
                    ELSE rpn_eval(ops, k + 1, Append(stack, call_args[o.n + 1]),
                                  env_data, call_args)
               [] OTHER ->      \* CallDef
                    LET given == [i \in 1..Len(o.paras) |->
                                     rpn_eval(o.paras[i], 1, <<>>, env_data, call_args)]
                    IN  IF \E i \in 1..Len(given) : given[i] = Panicked THEN Panicked
                        ELSE IF o.n >= Len(env_data) THEN Panicked
                        ELSE IF env_data[o.n + 1].kind # "Fun"
                             THEN rpn_eval(ops, k + 1, stack, env_data, call_args)
                        ELSE LET f == env_data[o.n + 1]
                                 r == rpn_eval(f.body, 1, <<>>, env_data,
                                               SubSeq(given, 1, f.n))
                             IN  IF r = Panicked THEN Panicked
                                 ELSE rpn_eval(ops, k + 1, Append(stack, r),
                                               env_data, call_args)

\* Slice::Var, Slice::Call and Slice::Def
Var(n) == [kind |-> "Var", data |-> Num(n), para_count |-> 0, body |-> <<>>]
Call(body) == [kind |-> "Call", data |-> Num(0), para_count |-> 0, body |-> body]
Def(para_count, body) == [kind |-> "Def", data |-> Num(0), para_count |-> para_count,
                          body |-> body]

\* Slice::eval
slice_eval(sl, env_data) ==
    CASE sl.kind = "Var"  -> sl.data
      [] sl.kind = "Call" -> rpn_eval(sl.body, 1, <<>>, env_data, <<>>)
      [] OTHER            -> Fun(sl.para_count, sl.body)

\* the loop of Env::update from slice i on: each result is pushed onto data
RECURSIVE update_loop(_, _, _)
update_loop(slice, i, data) ==
    IF i > Len(slice) THEN [data |-> data, ok |-> TRUE]
    ELSE LET result == slice_eval(slice[i], data)
         IN  IF result = Panicked THEN [data |-> data, ok |-> FALSE]
             ELSE update_loop(slice, i + 1, Append(data, result))

\* the slices a caller adds: a = 1.0, a = 10.0, b = <global 0> + 2.0,
\* c = <global 1> + 2.0 (tests::test_1), f(x) = x + 2.0 and f(1.0) + 2.0
\* (tests::test_2)
Slices ==
    {Var(1), Var(10),
     Call(<<LoadGlobal(0), Push(2), Add>>),
     Call(<<LoadGlobal(1), Push(2), Add>>),
     Def(1, <<LoadPara(0), Push(2), Add>>),
     Call(<<CallDef(0, <<<<Push(1)>>>>), Push(2), Add>>)}

\* the globals a slice refers to are earlier slices of the right kind:
\* LoadGlobal of a Var or a Call, CallDef of a Def
WellFormed(sl, slice) ==
    \A k \in 1..Len(sl.body) :
        LET o == sl.body[k]
        IN  /\ o.op = "LoadGlobal" =>
                  o.n < Len(slice) /\ slice[o.n + 1].kind \in {"Var", "Call"}
            /\ o.op = "CallDef" =>
                  o.n < Len(slice) /\ slice[o.n + 1].kind = "Def"

EnvStep ==
    /\ solver = "env" /\ ~ panicked
    /\ UNCHANGED <<solver, pc, args, path, idx, vertices, indices, evals, parts, done,
                   returned, plotter>>

\* Env::add_slice
add_slice ==
    /\ EnvStep /\ Len(env.slice) < MaxSlices
    /\ \E sl \in Slices :
          /\ WellFormed(sl, env.slice)
          /\ env' = [env EXCEPT !.slice = Append(@, sl), !.fresh = FALSE]
    /\ UNCHANGED panicked

\* Env::update: every slice is evaluated and its result pushed; the last
\* value of data is returned (expect panics when data is empty)
update ==
    /\ EnvStep /\ env.updates < MaxUpdates
    /\ LET u == update_loop(env.slice, 1, env.data)
       IN  IF u.ok /\ u.data # <<>>
           THEN /\ env' = [env EXCEPT !.data = u.data, !.last = u.data[Len(u.data)],
                                      !.fresh = TRUE, !.updates = @ + 1]
                /\ UNCHANGED panicked
           ELSE /\ env' = [env EXCEPT !.data = u.data, !.fresh = FALSE, !.updates = @ + 1]
                /\ panicked' = TRUE

InitEnv == solver = "env" /\ args = <<>> /\ InitBuffers

NextEnv == add_slice \/ update

SpecEnv == InitEnv /\ [][NextEnv]_vars

(***************************************************************************)
(* Claims about Env (checked under SpecEnv).                               *)
(***************************************************************************)
\* the result of every slice, each evaluated on the results of the slices
\* before it
Results(slice) == update_loop(slice, 1, <<>>).data

\* C30: after an update has returned, data holds one value per slice,
\* data[i] is the result of slice i, and the value returned is the result
\* of the last slice.
C30_OneValuePerSlice ==
    (solver = "env" /\ env.fresh) =>
        /\ Len(env.data) = Len(env.slice)
        /\ env.data = Results(env.slice)
        /\ env.last = Results(env.slice)[Len(env.slice)]
====
